---- MODULE Spec2Model ----
(***************************************************************************)
(* A state-machine model of SceneManager (SceneManager.cpp): the texture   *)
(* registry, the material registry, the transform composer, the shader     *)
(* appearance state and the PrepareScene / RenderScene orchestration.      *)
(*                                                                         *)
(* The OpenGL context, the image decoder, the shader manager and the mesh  *)
(* library are modelled by the part of their state the scene manager       *)
(* reads or writes: generated texture names, texture-unit bindings,        *)
(* outstanding decoder buffers, uniform values, loaded meshes.             *)
(*                                                                         *)
(* Floating point values are fixed-point integers in units of 1/FixOne.    *)
(***************************************************************************)
EXTENDS Integers, Sequences, FiniteSets, TLC

VARIABLES
    m_pShaderManager,   \* the ShaderManager pointer: NULL or ShaderPtr
    m_loadedTextures,   \* number of registered textures
    m_textureIDs,       \* the registered entries [tag, ID], index 1 = slot 0
    m_objectMaterials,  \* the defined materials, in definition order
    m_basicMeshes,      \* mesh library: how often each shape was loaded
    glTextures,         \* GL: texture names generated and never deleted
    glActiveUnit,       \* GL: the active texture unit
    glUnits,            \* GL: unit -> name bound to GL_TEXTURE_2D (0 = none)
    heapImages,         \* decoder buffers returned by stbi_load, not freed
    uniforms,           \* shader program: uniform name -> value
    material,           \* the OBJECT_MATERIAL a caller passes to FindMaterial
    materialIn,         \* its value when FindMaterial was entered
    halted,             \* the process died on a null dereference
    lastCall,           \* the most recent call: [op, tag, arg, ret]
    pc,                 \* position inside PrepareScene / RenderScene
    frame,              \* number of completed RenderScene calls (capped)
    setupTrace,         \* calls PrepareScene has issued so far, in order
    sinceDraw,          \* RenderScene calls issued since the last draw call
    firstFrameDraws     \* shading state at each draw call of the first frame

vars == <<m_pShaderManager, m_loadedTextures, m_textureIDs, m_objectMaterials,
          m_basicMeshes, glTextures, glActiveUnit, glUnits, heapImages,
          uniforms, material, materialIn, halted, lastCall, pc, frame,
          setupTrace, sinceDraw, firstFrameDraws>>

(***************************************************************************)
(* Bounds of the model                                                     *)
(***************************************************************************)
MaxLoaded == 2      \* registered textures in the registry-API specification
MaxGenerated == 3   \* texture names generated in the registry-API specification
MaxLeaked == 1      \* decoder buffers left unfreed
GenChoice == 1      \* glGenTextures returns one of this many lowest unused names

(***************************************************************************)
(* Program constants                                                       *)
(***************************************************************************)
TextureSlots == 16  \* "There are up to 16 slots"
FixOne == 100000    \* fixed-point one: every literal has at most 5 decimals
InitialLoadedTextures == 0

NULL == "NULL"
ShaderPtr == "ShaderManager"

g_ModelName == "model"
g_ColorValueName == "objectColor"
g_TextureValueName == "objectTexture"
g_UseTextureName == "bUseTexture"
g_UseLightingName == "bUseLighting"

BoolToInt(b) == IF b THEN 1 ELSE 0

Call(op, tag, arg, ret) == [op |-> op, tag |-> tag, arg |-> arg, ret |-> ret]


(***************************************************************************)
(* Inputs                                                                  *)
(***************************************************************************)
\* stbi_load's outcome for a file: 0 = no image, otherwise the channel count
StbiLoadResults == 0..4
\* tags used by the registry-API specification (two of the scene's tags)
ApiTags == {"woodReal", "woodPlanks"}
\* the file a tag is loaded from in LoadSceneTextures
FileOf(tag) == IF tag = "woodReal" THEN "wood_natural.jpg"
               ELSE "wood_planks_light_brown.jpg"

(***************************************************************************)
(* OpenGL: texture names and texture units                                 *)
(***************************************************************************)
\* names not yet in use, among the lowest candidates
UnusedNames(k) == {n \in 1..(Cardinality(glTextures) + k) : n \notin glTextures}

RECURSIVE LowestOf(_, _)
LowestOf(S, k) ==
    IF k = 0 \/ S = {} THEN {}
    ELSE LET m == CHOOSE x \in S : \A y \in S : x <= y
         IN  {m} \cup LowestOf(S \ {m}, k - 1)

\* glGenTextures(1, &id): id becomes a previously unused, non-zero name
glGenTexturesNames == LowestOf(UnusedNames(GenChoice), GenChoice)

\* glBindTexture(GL_TEXTURE_2D, id) acts on the active texture unit
glBindTexture(units, unit, id) == [units EXCEPT ![unit] = id]

(***************************************************************************)
(* Texture registry                                                        *)
(***************************************************************************)
TextureInfo(tag, id) == [tag |-> tag, ID |-> id]

\* CreateGLTexture with the registration moved in front of the channel test
CreateGLTextureAnyChannels(filename, tag, colorChannels, textureID) ==
    IF colorChannels # 0
    THEN /\ textureID \in glGenTexturesNames
         /\ glTextures' = glTextures \cup {textureID}
         /\ m_textureIDs' = Append(m_textureIDs, TextureInfo(tag, textureID))
         /\ m_loadedTextures' = m_loadedTextures + 1
         /\ halted' = halted
         /\ IF colorChannels = 3 \/ colorChannels = 4
            THEN /\ heapImages' = heapImages
                 /\ glUnits' = glBindTexture(glUnits, glActiveUnit, 0)
                 /\ lastCall' = Call("CreateGLTexture", tag, colorChannels, BoolToInt(TRUE))
            ELSE /\ heapImages' = heapImages + 1
                 /\ glUnits' = glBindTexture(glUnits, glActiveUnit, textureID)
                 /\ lastCall' = Call("CreateGLTexture", tag, colorChannels, BoolToInt(FALSE))
    ELSE /\ UNCHANGED <<glTextures, heapImages, glUnits, m_textureIDs, m_loadedTextures, halted>>
         /\ lastCall' = Call("CreateGLTexture", tag, colorChannels, BoolToInt(FALSE))

\* CreateGLTexture taking a registry entry for an image that could not be read
CreateGLTextureRegistersUnreadImage(filename, tag, colorChannels, textureID) ==
    IF colorChannels # 0
    THEN /\ textureID \in glGenTexturesNames
         /\ glTextures' = glTextures \cup {textureID}
         /\ halted' = halted
         /\ IF colorChannels = 3 \/ colorChannels = 4
            THEN /\ heapImages' = heapImages
                 /\ glUnits' = glBindTexture(glUnits, glActiveUnit, 0)
                 /\ m_textureIDs' = Append(m_textureIDs, TextureInfo(tag, textureID))
                 /\ m_loadedTextures' = m_loadedTextures + 1
                 /\ lastCall' = Call("CreateGLTexture", tag, colorChannels, BoolToInt(TRUE))
            ELSE /\ heapImages' = heapImages + 1
                 /\ glUnits' = glBindTexture(glUnits, glActiveUnit, textureID)
                 /\ UNCHANGED <<m_textureIDs, m_loadedTextures>>
                 /\ lastCall' = Call("CreateGLTexture", tag, colorChannels, BoolToInt(FALSE))
    ELSE /\ UNCHANGED <<glTextures, heapImages, glUnits, halted>>
         /\ m_textureIDs' = Append(m_textureIDs, TextureInfo(tag, 0))
         /\ m_loadedTextures' = m_loadedTextures + 1
         /\ lastCall' = Call("CreateGLTexture", tag, colorChannels, BoolToInt(FALSE))

\* CreateGLTexture(filename, tag); colorChannels is the decoder's outcome and
\* textureID the name glGenTextures hands out
CreateGLTexture(filename, tag, colorChannels, textureID) ==
    IF colorChannels # 0
    THEN \* the image was read: generate and bind a texture
         /\ textureID \in glGenTexturesNames
         /\ glTextures' = glTextures \cup {textureID}
         /\ IF colorChannels = 3 \/ colorChannels = 4
            THEN \* upload, free the image, unbind, register
                 /\ heapImages' = heapImages
                 /\ glUnits' = glBindTexture(glUnits, glActiveUnit, 0)
                 /\ IF m_loadedTextures < TextureSlots
                    THEN /\ m_textureIDs' = Append(m_textureIDs, TextureInfo(tag, textureID))
                         /\ m_loadedTextures' = m_loadedTextures + 1
                         /\ halted' = halted
                         /\ lastCall' = Call("CreateGLTexture", tag, colorChannels,
                                             BoolToInt(TRUE))
                    ELSE \* m_textureIDs[m_loadedTextures] lies past the array: the
                         \* write faults, or it lands behind the array and the call
                         \* goes on
                         \/ /\ halted' = TRUE
                            /\ UNCHANGED <<m_textureIDs, m_loadedTextures>>
                            /\ lastCall' = Call("CreateGLTexture", tag, colorChannels,
                                                BoolToInt(FALSE))
                         \/ /\ m_textureIDs' = Append(m_textureIDs, TextureInfo(tag, textureID))
                            /\ m_loadedTextures' = m_loadedTextures + 1
                            /\ halted' = halted
                            /\ lastCall' = Call("CreateGLTexture", tag, colorChannels,
                                                BoolToInt(TRUE))
            ELSE \* "Not implemented to handle image with n channels"
                 /\ heapImages' = heapImages + 1
                 /\ glUnits' = glBindTexture(glUnits, glActiveUnit, textureID)
                 /\ UNCHANGED <<m_textureIDs, m_loadedTextures, halted>>
                 /\ lastCall' = Call("CreateGLTexture", tag, colorChannels, BoolToInt(FALSE))
    ELSE \* "Could not load image"
         /\ UNCHANGED <<glTextures, heapImages, glUnits, m_textureIDs, m_loadedTextures,
                        halted>>
         /\ lastCall' = Call("CreateGLTexture", tag, colorChannels, BoolToInt(FALSE))

\* the loop of BindGLTextures without the glActiveTexture call
RECURSIVE BindLoopNoActiveTexture(_, _, _, _)
BindLoopNoActiveTexture(units, textureIDs, loaded, i) ==
    IF i < loaded
    THEN BindLoopNoActiveTexture(glBindTexture(units, glActiveUnit, textureIDs[i + 1].ID),
                                 textureIDs, loaded, i + 1)
    ELSE units

\* the loop of BindGLTextures: unit i gets m_textureIDs[i].ID for i < count
RECURSIVE BindLoop(_, _, _, _)
BindLoop(units, textureIDs, loaded, i) ==
    IF i < loaded
    THEN BindLoop(glBindTexture(units, i, textureIDs[i + 1].ID), textureIDs, loaded, i + 1)
    ELSE units

BindGLTextures ==
    /\ glUnits' = BindLoop(glUnits, m_textureIDs, m_loadedTextures, 0)
    /\ glActiveUnit' = IF m_loadedTextures > 0 THEN m_loadedTextures - 1 ELSE glActiveUnit
    /\ lastCall' = Call("BindGLTextures", "", 0, 0)

\* DestroyGLTextures: glGenTextures(1, &m_textureIDs[i].ID) for i < count;
\* newIDs are the names the calls hand out
DestroyGLTextures(newIDs) ==
    /\ newIDs \in [1..m_loadedTextures -> UnusedNames(m_loadedTextures)]
    /\ \A i, j \in 1..m_loadedTextures : i # j => newIDs[i] # newIDs[j]
    /\ glTextures' = glTextures \cup {newIDs[i] : i \in 1..m_loadedTextures}
    /\ m_textureIDs' = IF m_loadedTextures = 0 THEN m_textureIDs
                       ELSE [i \in 1..m_loadedTextures |->
                                TextureInfo(m_textureIDs[i].tag, newIDs[i])]
    /\ lastCall' = Call("DestroyGLTextures", "", 0, 0)

\* the scan of FindTextureID returning the index instead of the stored ID
RECURSIVE FindTextureIDFromIndex(_, _, _, _)
FindTextureIDFromIndex(textureIDs, loaded, tag, index) ==
    IF index < loaded
    THEN IF textureIDs[index + 1].tag = tag
         THEN index
         ELSE FindTextureIDFromIndex(textureIDs, loaded, tag, index + 1)
    ELSE -1

RECURSIVE FindTextureIDFrom(_, _, _, _)
FindTextureIDFrom(textureIDs, loaded, tag, index) ==
    IF index < loaded
    THEN IF textureIDs[index + 1].tag = tag
         THEN textureIDs[index + 1].ID
         ELSE FindTextureIDFrom(textureIDs, loaded, tag, index + 1)
    ELSE -1

FindTextureIDIn(textureIDs, loaded, tag) == FindTextureIDFrom(textureIDs, loaded, tag, 0)

FindTextureID(tag) == FindTextureIDIn(m_textureIDs, m_loadedTextures, tag)

\* the scan of FindTextureSlot counting slots from one
RECURSIVE FindTextureSlotFromOne(_, _, _, _)
FindTextureSlotFromOne(textureIDs, loaded, tag, index) ==
    IF index < loaded
    THEN IF textureIDs[index + 1].tag = tag
         THEN index + 1
         ELSE FindTextureSlotFromOne(textureIDs, loaded, tag, index + 1)
    ELSE -1

\* the scan of FindTextureSlot without the bFound test: the last match wins
RECURSIVE FindTextureSlotFromLast(_, _, _, _)
FindTextureSlotFromLast(textureIDs, loaded, tag, index) ==
    IF index < loaded
    THEN LET rest == FindTextureSlotFromLast(textureIDs, loaded, tag, index + 1)
         IN  IF rest # -1 THEN rest
             ELSE IF textureIDs[index + 1].tag = tag THEN index ELSE -1
    ELSE -1

RECURSIVE FindTextureSlotFrom(_, _, _, _)
FindTextureSlotFrom(textureIDs, loaded, tag, index) ==
    IF index < loaded
    THEN IF textureIDs[index + 1].tag = tag
         THEN index
         ELSE FindTextureSlotFrom(textureIDs, loaded, tag, index + 1)
    ELSE -1

FindTextureSlotIn(textureIDs, loaded, tag) == FindTextureSlotFrom(textureIDs, loaded, tag, 0)

FindTextureSlot(tag) == FindTextureSlotIn(m_textureIDs, m_loadedTextures, tag)


(***************************************************************************)
(* Shader uniforms                                                         *)
(***************************************************************************)
Vec2(x, y) == <<x, y>>
Vec3(x, y, z) == <<x, y, z>>
Vec4(x, y, z, w) == <<x, y, z, w>>
ZeroMat4 == <<Vec4(0, 0, 0, 0), Vec4(0, 0, 0, 0), Vec4(0, 0, 0, 0), Vec4(0, 0, 0, 0)>>

MaterialUniformNames == {"material.ambientColor", "material.ambientStrength",
                         "material.diffuseColor", "material.specularColor",
                         "material.shininess"}

\* the uniform values of a freshly linked program are zero
InitialUniforms ==
    [n \in {g_ModelName, g_ColorValueName, g_TextureValueName, g_UseTextureName,
            g_UseLightingName, "UVscale", "lightSources"} \cup MaterialUniformNames |->
        CASE n = g_ModelName -> ZeroMat4
          [] n = g_ColorValueName -> Vec4(0, 0, 0, 0)
          [] n = "UVscale" -> Vec2(0, 0)
          [] n = "lightSources" -> <<>>
          [] n \in {"material.ambientColor", "material.diffuseColor",
                    "material.specularColor"} -> Vec3(0, 0, 0)
          [] OTHER -> 0]

\* SetShaderColor without the write of the use-texture flag
SetShaderColorKeepsFlag(redColorValue, greenColorValue, blueColorValue, alphaValue) ==
    LET currentColor == Vec4(redColorValue, greenColorValue, blueColorValue, alphaValue)
    IN  /\ uniforms' = IF NULL # m_pShaderManager
                       THEN [uniforms EXCEPT ![g_ColorValueName] = currentColor]
                       ELSE uniforms
        /\ lastCall' = Call("SetShaderColor", "", 0, 0)

\* SetShaderColor writing the lighting flag in place of the use-texture flag
SetShaderColorWritesLightingFlag(redColorValue, greenColorValue, blueColorValue, alphaValue) ==
    LET currentColor == Vec4(redColorValue, greenColorValue, blueColorValue, alphaValue)
    IN  /\ uniforms' = IF NULL # m_pShaderManager
                       THEN [uniforms EXCEPT ![g_UseLightingName] = BoolToInt(FALSE),
                                             ![g_ColorValueName] = currentColor]
                       ELSE uniforms
        /\ lastCall' = Call("SetShaderColor", "", 0, 0)

\* SetShaderColor(r, g, b, a)
SetShaderColor(redColorValue, greenColorValue, blueColorValue, alphaValue) ==
    LET currentColor == Vec4(redColorValue, greenColorValue, blueColorValue, alphaValue)
    IN  /\ uniforms' = IF NULL # m_pShaderManager
                       THEN [uniforms EXCEPT ![g_UseTextureName] = BoolToInt(FALSE),
                                             ![g_ColorValueName] = currentColor]
                       ELSE uniforms
        /\ lastCall' = Call("SetShaderColor", "", 0, 0)

\* SetShaderTexture uploading the texture's handle in place of its slot
SetShaderTextureByHandle(textureTag) ==
    /\ uniforms' = IF NULL # m_pShaderManager
                   THEN LET textureID == FindTextureID(textureTag)
                        IN  [uniforms EXCEPT ![g_UseTextureName] = BoolToInt(TRUE),
                                             ![g_TextureValueName] = textureID]
                   ELSE uniforms
    /\ lastCall' = Call("SetShaderTexture", textureTag, 0, 0)

\* SetShaderTexture(textureTag)
SetShaderTexture(textureTag) ==
    /\ uniforms' = IF NULL # m_pShaderManager
                   THEN LET textureID == FindTextureSlot(textureTag)
                        IN  [uniforms EXCEPT ![g_UseTextureName] = BoolToInt(TRUE),
                                             ![g_TextureValueName] = textureID]
                   ELSE uniforms
    /\ lastCall' = Call("SetShaderTexture", textureTag, 0, 0)

\* SetTextureUVScale(u, v)
SetTextureUVScale(u, v) ==
    /\ uniforms' = IF NULL # m_pShaderManager
                   THEN [uniforms EXCEPT !["UVscale"] = Vec2(u, v)]
                   ELSE uniforms
    /\ lastCall' = Call("SetTextureUVScale", "", 0, 0)


(***************************************************************************)
(* Material registry                                                       *)
(***************************************************************************)
ObjectMaterial(tag, ambientColor, ambientStrength, diffuseColor, specularColor, shininess) ==
    [tag |-> tag, ambientColor |-> ambientColor, ambientStrength |-> ambientStrength,
     diffuseColor |-> diffuseColor, specularColor |-> specularColor,
     shininess |-> shininess]

\* the literals of DefineObjectMaterials, in units of 1/FixOne
woodMaterial == ObjectMaterial("wood", Vec3(10000, 10000, 10000), 20000,
                               Vec3(30000, 30000, 30000), Vec3(10000, 10000, 10000), 30000)
tableMaterial == ObjectMaterial("table", Vec3(20000, 20000, 20000), 30000,
                                Vec3(40000, 40000, 40000), Vec3(20000, 20000, 20000), 50000)
rugMaterial == ObjectMaterial("rug", Vec3(20000, 20000, 20000), 30000,
                              Vec3(50000, 50000, 50000), Vec3(30000, 30000, 30000), 50000)
glassMaterial == ObjectMaterial("glass", Vec3(50000, 50000, 50000), 30000,
                                Vec3(80000, 80000, 80000), Vec3(80000, 80000, 80000), 10000000)

\* m_objectMaterials.push_back(m)
PushMaterial(materials, m) == Append(materials, m)

DefineObjectMaterials ==
    /\ m_objectMaterials' =
           PushMaterial(PushMaterial(PushMaterial(PushMaterial(m_objectMaterials,
               woodMaterial), tableMaterial), rugMaterial), glassMaterial)
    /\ lastCall' = Call("DefineObjectMaterials", "", 0, 0)

\* the five fields FindMaterial copies; the tag of the output is not written
CopyMaterial(out, entry) ==
    [out EXCEPT !.ambientColor = entry.ambientColor,
                !.ambientStrength = entry.ambientStrength,
                !.diffuseColor = entry.diffuseColor,
                !.specularColor = entry.specularColor,
                !.shininess = entry.shininess]

\* the scan of FindMaterial without the bFound test: the last match wins
RECURSIVE FindMaterialFromLast(_, _, _, _)
FindMaterialFromLast(materials, tag, out, index) ==
    IF index < Len(materials)
    THEN IF materials[index + 1].tag = tag
         THEN FindMaterialFromLast(materials, tag, CopyMaterial(out, materials[index + 1]),
                                   index + 1)
         ELSE FindMaterialFromLast(materials, tag, out, index + 1)
    ELSE out

RECURSIVE FindMaterialFrom(_, _, _, _)
FindMaterialFrom(materials, tag, out, index) ==
    IF index < Len(materials)
    THEN IF materials[index + 1].tag = tag
         THEN CopyMaterial(out, materials[index + 1])
         ELSE FindMaterialFrom(materials, tag, out, index + 1)
    ELSE out

\* FindMaterial returning bFound instead of true
FindMaterialInReturnsFound(materials, tag, out) ==
    IF Len(materials) = 0
    THEN [ret |-> FALSE, material |-> out]
    ELSE [ret |-> \E i \in 1..Len(materials) : materials[i].tag = tag,
          material |-> FindMaterialFrom(materials, tag, out, 0)]

\* FindMaterial(tag, material): the return value and the output parameter
FindMaterialIn(materials, tag, out) ==
    IF Len(materials) = 0
    THEN [ret |-> FALSE, material |-> out]
    ELSE [ret |-> TRUE, material |-> FindMaterialFrom(materials, tag, out, 0)]

FindMaterial(tag, out) == FindMaterialIn(m_objectMaterials, tag, out)

\* the five uniform calls of SetShaderMaterial
MaterialUniforms(u, m) ==
    [u EXCEPT !["material.ambientColor"] = m.ambientColor,
              !["material.ambientStrength"] = m.ambientStrength,
              !["material.diffuseColor"] = m.diffuseColor,
              !["material.specularColor"] = m.specularColor,
              !["material.shininess"] = m.shininess]

\* values an uninitialised OBJECT_MATERIAL local may hold (its tag is the
\* empty string, its numeric fields are indeterminate)
IndeterminateMaterials ==
    {ObjectMaterial("", Vec3(0, 0, 0), 0, Vec3(0, 0, 0), Vec3(0, 0, 0), 0),
     ObjectMaterial("", Vec3(-1, 7, 3), 9, Vec3(5, -2, 8), Vec3(4, 4, -6), -1)}

\* SetShaderMaterial(materialTag); the local OBJECT_MATERIAL starts out
\* indeterminate, and m_pShaderManager is dereferenced without a null check
SetShaderMaterial(materialTag) ==
    /\ lastCall' = Call("SetShaderMaterial", materialTag, 0, 0)
    /\ IF Len(m_objectMaterials) > 0
       THEN \E local \in IndeterminateMaterials :
                LET found == FindMaterial(materialTag, local)
                IN  IF found.ret = TRUE
                    THEN IF NULL # m_pShaderManager
                         THEN /\ uniforms' = MaterialUniforms(uniforms, found.material)
                              /\ halted' = halted
                         ELSE \* null dereference: the process dies, or the
                              \* calls go through
                              \/ /\ halted' = TRUE
                                 /\ uniforms' = uniforms
                              \/ /\ halted' = halted
                                 /\ uniforms' = MaterialUniforms(uniforms, found.material)
                    ELSE UNCHANGED <<uniforms, halted>>
       ELSE UNCHANGED <<uniforms, halted>>


(***************************************************************************)
(* Transform composer (fixed-point 4x4 matrices, row-major)                *)
(***************************************************************************)
\* product of two fixed-point numbers; exact when one factor is whole
FixMul(a, b) ==
    IF a % FixOne = 0 THEN (a \div FixOne) * b
    ELSE IF b % FixOne = 0 THEN a * (b \div FixOne)
    ELSE (a * b) \div FixOne

\* operator* of glm::mat4
MatMul(A, B) ==
    LET E(r, c) == FixMul(A[r][1], B[1][c]) + FixMul(A[r][2], B[2][c])
                 + FixMul(A[r][3], B[3][c]) + FixMul(A[r][4], B[4][c])
        Row(r) == Vec4(E(r, 1), E(r, 2), E(r, 3), E(r, 4))
    IN  <<Row(1), Row(2), Row(3), Row(4)>>

\* operator* of glm::mat4 with a point (x, y, z, 1)
TransformPoint(M, p) ==
    LET E(r) == FixMul(M[r][1], p[1]) + FixMul(M[r][2], p[2]) + FixMul(M[r][3], p[3])
              + M[r][4]
    IN  Vec3(E(1), E(2), E(3))

\* glm::scale(v)
GlmScale(v) ==
    <<Vec4(v[1], 0, 0, 0), Vec4(0, v[2], 0, 0), Vec4(0, 0, v[3], 0), Vec4(0, 0, 0, FixOne)>>

\* glm::translate(v)
GlmTranslate(v) ==
    <<Vec4(FixOne, 0, 0, v[1]), Vec4(0, FixOne, 0, v[2]), Vec4(0, 0, FixOne, v[3]),
      Vec4(0, 0, 0, FixOne)>>

\* cos and sin of glm::radians(degrees), for whole multiples of 90 degrees
QuarterTurns(degrees) == (degrees \div (90 * FixOne)) % 4
CosDegrees(degrees) ==
    CASE QuarterTurns(degrees) = 0 -> FixOne
      [] QuarterTurns(degrees) = 2 -> -FixOne
      [] OTHER -> 0
SinDegrees(degrees) ==
    CASE QuarterTurns(degrees) = 1 -> FixOne
      [] QuarterTurns(degrees) = 3 -> -FixOne
      [] OTHER -> 0

\* glm::rotate(angle, axis) for a unit axis with whole components:
\* c*I + (1-c)*axis*axis^T + s*[axis]x
GlmRotate(degrees, axis) ==
    LET c == CosDegrees(degrees)
        s == SinDegrees(degrees)
        K == <<Vec3(0, -axis[3], axis[2]), Vec3(axis[3], 0, -axis[1]),
               Vec3(-axis[2], axis[1], 0)>>
        R(i, j) == (IF i = j THEN c ELSE 0) + (FixOne - c) * axis[i] * axis[j] + s * K[i][j]
    IN  <<Vec4(R(1, 1), R(1, 2), R(1, 3), 0), Vec4(R(2, 1), R(2, 2), R(2, 3), 0),
          Vec4(R(3, 1), R(3, 2), R(3, 3), 0), Vec4(0, 0, 0, FixOne)>>

\* the product of SetTransformations with the translation next to the scale
ModelViewTranslateFirst(scaleXYZ, XrotationDegrees, YrotationDegrees, ZrotationDegrees, positionXYZ) ==
    LET scale == GlmScale(scaleXYZ)
        rotationX == GlmRotate(XrotationDegrees, Vec3(1, 0, 0))
        rotationY == GlmRotate(YrotationDegrees, Vec3(0, 1, 0))
        rotationZ == GlmRotate(ZrotationDegrees, Vec3(0, 0, 1))
        translation == GlmTranslate(positionXYZ)
    IN  MatMul(MatMul(MatMul(MatMul(rotationX, rotationY), rotationZ), translation), scale)

\* the product of SetTransformations with the three rotations in reverse
ModelViewRotationsReversed(scaleXYZ, XrotationDegrees, YrotationDegrees, ZrotationDegrees, positionXYZ) ==
    LET scale == GlmScale(scaleXYZ)
        rotationX == GlmRotate(XrotationDegrees, Vec3(1, 0, 0))
        rotationY == GlmRotate(YrotationDegrees, Vec3(0, 1, 0))
        rotationZ == GlmRotate(ZrotationDegrees, Vec3(0, 0, 1))
        translation == GlmTranslate(positionXYZ)
    IN  MatMul(MatMul(MatMul(MatMul(translation, rotationZ), rotationY), rotationX), scale)

\* the matrix SetTransformations composes
ModelView(scaleXYZ, XrotationDegrees, YrotationDegrees, ZrotationDegrees, positionXYZ) ==
    LET scale == GlmScale(scaleXYZ)
        rotationX == GlmRotate(XrotationDegrees, Vec3(1, 0, 0))
        rotationY == GlmRotate(YrotationDegrees, Vec3(0, 1, 0))
        rotationZ == GlmRotate(ZrotationDegrees, Vec3(0, 0, 1))
        translation == GlmTranslate(positionXYZ)
    IN  MatMul(MatMul(MatMul(MatMul(translation, rotationX), rotationY), rotationZ), scale)

TransformArgs(scaleXYZ, XrotationDegrees, YrotationDegrees, ZrotationDegrees, positionXYZ) ==
    [scale |-> scaleXYZ, rx |-> XrotationDegrees, ry |-> YrotationDegrees,
     rz |-> ZrotationDegrees, pos |-> positionXYZ]

SetTransformations(scaleXYZ, XrotationDegrees, YrotationDegrees, ZrotationDegrees, positionXYZ) ==
    LET modelView == ModelView(scaleXYZ, XrotationDegrees, YrotationDegrees,
                               ZrotationDegrees, positionXYZ)
    IN  /\ uniforms' = IF NULL # m_pShaderManager
                       THEN [uniforms EXCEPT ![g_ModelName] = modelView]
                       ELSE uniforms
        /\ lastCall' = Call("SetTransformations", "",
                            TransformArgs(scaleXYZ, XrotationDegrees, YrotationDegrees,
                                          ZrotationDegrees, positionXYZ), 0)

(***************************************************************************)
(* Construction                                                            *)
(***************************************************************************)
Shapes == {"Plane", "Box", "Cylinder", "Cone"}

ZeroMaterial == ObjectMaterial("", Vec3(0, 0, 0), 0, Vec3(0, 0, 0), Vec3(0, 0, 0), 0)

\* SceneManager(pShaderManager) on a fresh GL context
Constructed(pShaderManager) ==
    /\ m_pShaderManager = pShaderManager
    /\ m_loadedTextures = InitialLoadedTextures
    /\ m_textureIDs = <<>>
    /\ m_objectMaterials = <<>>
    /\ m_basicMeshes = [s \in Shapes |-> 0]
    /\ glTextures = {}
    /\ glActiveUnit = 0
    /\ glUnits = [u \in 0..(TextureSlots - 1) |-> 0]
    /\ heapImages = 0
    /\ uniforms = InitialUniforms
    /\ material = ZeroMaterial
    /\ materialIn = ZeroMaterial
    /\ halted = FALSE
    /\ lastCall = Call("SceneManager", "", 0, 0)
    /\ pc = <<"constructed", 0>>
    /\ frame = 0
    /\ setupTrace = <<>>
    /\ sinceDraw = <<>>
    /\ firstFrameDraws = <<>>

Init == \E pShaderManager \in {NULL, ShaderPtr} : Constructed(pShaderManager)

(***************************************************************************)
(* Specification of the texture registry and the appearance state: the     *)
(* registry and appearance methods called in any order                     *)
(***************************************************************************)
ColorInputs == {Vec4(FixOne, 0, FixOne, FixOne), Vec4(FixOne, 80000, 50000, 50000)}
UVInputs == {Vec2(FixOne, FixOne), Vec2(10000, FixOne)}

CallCreateGLTexture ==
    /\ ~halted
    /\ \E tag \in ApiTags, colorChannels \in StbiLoadResults, textureID \in 1..(MaxGenerated + 1) :
          /\ colorChannels \in {3, 4} => m_loadedTextures < MaxLoaded
          /\ colorChannels # 0 => Cardinality(glTextures) < MaxGenerated
          /\ colorChannels \in {1, 2} => heapImages < MaxLeaked
          /\ CreateGLTexture(FileOf(tag), tag, colorChannels, textureID)
    /\ UNCHANGED <<firstFrameDraws, m_pShaderManager, m_objectMaterials, m_basicMeshes, glActiveUnit,
                   uniforms, material, materialIn, pc, frame, setupTrace, sinceDraw>>

CallBindGLTextures ==
    /\ ~halted
    /\ BindGLTextures
    /\ UNCHANGED <<firstFrameDraws, m_pShaderManager, m_loadedTextures, m_textureIDs, m_objectMaterials,
                   m_basicMeshes, glTextures, heapImages, uniforms, material, materialIn,
                   halted, pc, frame, setupTrace, sinceDraw>>

CallDestroyGLTextures ==
    /\ ~halted
    /\ Cardinality(glTextures) + m_loadedTextures <= MaxGenerated
    /\ \E newIDs \in [1..m_loadedTextures -> 1..(MaxGenerated + 1)] : DestroyGLTextures(newIDs)
    /\ UNCHANGED <<firstFrameDraws, m_pShaderManager, m_loadedTextures, m_objectMaterials, m_basicMeshes,
                   glActiveUnit, glUnits, heapImages, uniforms, material, materialIn,
                   halted, pc, frame, setupTrace, sinceDraw>>

CallFindTextureID ==
    /\ ~halted
    /\ \E tag \in ApiTags : lastCall' = Call("FindTextureID", tag, 0, FindTextureID(tag))
    /\ UNCHANGED <<firstFrameDraws, m_pShaderManager, m_loadedTextures, m_textureIDs, m_objectMaterials,
                   m_basicMeshes, glTextures, glActiveUnit, glUnits, heapImages, uniforms,
                   material, materialIn, halted, pc, frame, setupTrace, sinceDraw>>

CallFindTextureSlot ==
    /\ ~halted
    /\ \E tag \in ApiTags : lastCall' = Call("FindTextureSlot", tag, 0, FindTextureSlot(tag))
    /\ UNCHANGED <<firstFrameDraws, m_pShaderManager, m_loadedTextures, m_textureIDs, m_objectMaterials,
                   m_basicMeshes, glTextures, glActiveUnit, glUnits, heapImages, uniforms,
                   material, materialIn, halted, pc, frame, setupTrace, sinceDraw>>

CallSetShaderColor ==
    /\ ~halted
    /\ \E c \in ColorInputs : SetShaderColor(c[1], c[2], c[3], c[4])
    /\ UNCHANGED <<firstFrameDraws, m_pShaderManager, m_loadedTextures, m_textureIDs, m_objectMaterials,
                   m_basicMeshes, glTextures, glActiveUnit, glUnits, heapImages,
                   material, materialIn, halted, pc, frame, setupTrace, sinceDraw>>

CallSetShaderTexture ==
    /\ ~halted
    /\ \E tag \in ApiTags : SetShaderTexture(tag)
    /\ UNCHANGED <<firstFrameDraws, m_pShaderManager, m_loadedTextures, m_textureIDs, m_objectMaterials,
                   m_basicMeshes, glTextures, glActiveUnit, glUnits, heapImages,
                   material, materialIn, halted, pc, frame, setupTrace, sinceDraw>>

CallSetTextureUVScale ==
    /\ ~halted
    /\ \E uv \in UVInputs : SetTextureUVScale(uv[1], uv[2])
    /\ UNCHANGED <<firstFrameDraws, m_pShaderManager, m_loadedTextures, m_textureIDs, m_objectMaterials,
                   m_basicMeshes, glTextures, glActiveUnit, glUnits, heapImages,
                   material, materialIn, halted, pc, frame, setupTrace, sinceDraw>>

Next ==
    \/ CallCreateGLTexture
    \/ CallBindGLTextures
    \/ CallDestroyGLTextures
    \/ CallFindTextureID
    \/ CallFindTextureSlot

Spec == Init /\ [][Next]_vars

NextAppearance ==
    \/ CallCreateGLTexture
    \/ CallSetShaderColor
    \/ CallSetShaderTexture
    \/ CallSetTextureUVScale

SpecAppearance == Init /\ [][NextAppearance]_vars


(***************************************************************************)
(* Specification of the material registry: materials defined and looked    *)
(* up in any order                                                         *)
(***************************************************************************)
MaxMaterials == 2   \* defined materials in the material-registry specification

RetagMaterial(m, tag) == [m EXCEPT !.tag = tag]
\* materials handed to push_back: two of the scene's, and "wood" defined anew
MaterialInputs == {woodMaterial, tableMaterial, RetagMaterial(tableMaterial, "wood")}
MaterialTags == {"wood", "table", "glass"}
\* values of the caller's OBJECT_MATERIAL before FindMaterial
OutInputs == {ZeroMaterial, glassMaterial}

CallPushMaterial ==
    /\ ~halted
    /\ Len(m_objectMaterials) < MaxMaterials
    /\ \E m \in MaterialInputs :
          /\ m_objectMaterials' = PushMaterial(m_objectMaterials, m)
          /\ lastCall' = Call("push_back", m.tag, 0, 0)
    /\ UNCHANGED <<firstFrameDraws, m_pShaderManager, m_loadedTextures, m_textureIDs, m_basicMeshes,
                   glTextures, glActiveUnit, glUnits, heapImages, uniforms, material,
                   materialIn, halted, pc, frame, setupTrace, sinceDraw>>

CallFindMaterial ==
    /\ ~halted
    /\ \E tag \in MaterialTags, out \in OutInputs :
          LET found == FindMaterial(tag, out)
          IN  /\ materialIn' = out
              /\ material' = found.material
              /\ lastCall' = Call("FindMaterial", tag, 0, BoolToInt(found.ret))
    /\ UNCHANGED <<firstFrameDraws, m_pShaderManager, m_loadedTextures, m_textureIDs, m_objectMaterials,
                   m_basicMeshes, glTextures, glActiveUnit, glUnits, heapImages, uniforms,
                   halted, pc, frame, setupTrace, sinceDraw>>

CallSetShaderMaterial ==
    /\ ~halted
    /\ \E tag \in MaterialTags : SetShaderMaterial(tag)
    /\ UNCHANGED <<firstFrameDraws, m_pShaderManager, m_loadedTextures, m_textureIDs, m_objectMaterials,
                   m_basicMeshes, glTextures, glActiveUnit, glUnits, heapImages, material,
                   materialIn, pc, frame, setupTrace, sinceDraw>>

NextMaterial ==
    \/ CallPushMaterial
    \/ CallFindMaterial
    \/ CallSetShaderMaterial

SpecMaterial == Init /\ [][NextMaterial]_vars

(***************************************************************************)
(* Specification of the transform composer: SetTransformations applied to  *)
(* scales, quarter-turn rotations and positions                            *)
(***************************************************************************)
ScaleInputs == {Vec3(FixOne, FixOne, FixOne), Vec3(2 * FixOne, FixOne, FixOne),
                Vec3(FixOne, 25000, 3 * FixOne)}
DegreeInputs == {0, 90 * FixOne, 180 * FixOne, 270 * FixOne}
PositionInputs == {Vec3(FixOne, 0, 0), Vec3(-475000, 21000, 5 * FixOne)}

CallSetTransformations ==
    /\ ~halted
    /\ \E scaleXYZ \in ScaleInputs, rx \in DegreeInputs, ry \in DegreeInputs,
          rz \in DegreeInputs, positionXYZ \in PositionInputs :
          SetTransformations(scaleXYZ, rx, ry, rz, positionXYZ)
    /\ UNCHANGED <<firstFrameDraws, m_pShaderManager, m_loadedTextures, m_textureIDs, m_objectMaterials,
                   m_basicMeshes, glTextures, glActiveUnit, glUnits, heapImages,
                   material, materialIn, halted, pc, frame, setupTrace, sinceDraw>>

NextTransform == CallSetTransformations

SpecTransform == Init /\ [][NextTransform]_vars

(***************************************************************************)
(* The scene: PrepareScene and RenderScene, one step per call they issue   *)
(***************************************************************************)
MaxSceneFailures == 1   \* texture files of the scene that fail to load
MaxFrames == 2          \* RenderScene calls

SetupCall(op, a) == [op |-> op, a |-> a]

\* the calls of LoadSceneTextures with BindGLTextures ahead of the loads
LoadSceneTexturesCallsBindFirst ==
    <<SetupCall("BindGLTextures", ""),
      SetupCall("CreateGLTexture", <<"wood_natural.jpg", "woodReal">>),
      SetupCall("CreateGLTexture", <<"wood_planks_light_brown.jpg", "woodPlanks">>),
      SetupCall("CreateGLTexture", <<"plastic_white.jpg", "plastic">>),
      SetupCall("CreateGLTexture", <<"Label.jpg", "prescription">>),
      SetupCall("CreateGLTexture", <<"rug_proper.png", "rug">>),
      SetupCall("CreateGLTexture", <<"cloth_yellow.jpg", "cloth">>),
      SetupCall("CreateGLTexture", <<"black_wood.jpg", "table">>),
      SetupCall("CreateGLTexture", <<"wallpaper_beige.jpg", "wall">>),
      SetupCall("CreateGLTexture", <<"black.jpg", "screen">>),
      SetupCall("CreateGLTexture", <<"pearlescent.jpg", "pencil">>)>>

\* the calls of LoadSceneTextures with the wallpaper under another tag
LoadSceneTexturesCallsWallpaperTag ==
    <<SetupCall("CreateGLTexture", <<"wood_natural.jpg", "woodReal">>),
      SetupCall("CreateGLTexture", <<"wood_planks_light_brown.jpg", "woodPlanks">>),
      SetupCall("CreateGLTexture", <<"plastic_white.jpg", "plastic">>),
      SetupCall("CreateGLTexture", <<"Label.jpg", "prescription">>),
      SetupCall("CreateGLTexture", <<"rug_proper.png", "rug">>),
      SetupCall("CreateGLTexture", <<"cloth_yellow.jpg", "cloth">>),
      SetupCall("CreateGLTexture", <<"black_wood.jpg", "table">>),
      SetupCall("CreateGLTexture", <<"wallpaper_beige.jpg", "wallpaper">>),
      SetupCall("CreateGLTexture", <<"black.jpg", "screen">>),
      SetupCall("CreateGLTexture", <<"pearlescent.jpg", "pencil">>),
      SetupCall("BindGLTextures", "")>>

\* the calls of LoadSceneTextures
LoadSceneTexturesCalls ==
    <<SetupCall("CreateGLTexture", <<"wood_natural.jpg", "woodReal">>),
      SetupCall("CreateGLTexture", <<"wood_planks_light_brown.jpg", "woodPlanks">>),
      SetupCall("CreateGLTexture", <<"plastic_white.jpg", "plastic">>),
      SetupCall("CreateGLTexture", <<"Label.jpg", "prescription">>),
      SetupCall("CreateGLTexture", <<"rug_proper.png", "rug">>),
      SetupCall("CreateGLTexture", <<"cloth_yellow.jpg", "cloth">>),
      SetupCall("CreateGLTexture", <<"black_wood.jpg", "table">>),
      SetupCall("CreateGLTexture", <<"wallpaper_beige.jpg", "wall">>),
      SetupCall("CreateGLTexture", <<"black.jpg", "screen">>),
      SetupCall("CreateGLTexture", <<"pearlescent.jpg", "pencil">>),
      SetupCall("BindGLTextures", "")>>

\* the calls of PrepareScene without the load of the cone mesh
PrepareSceneCallsWithoutCone ==
    LoadSceneTexturesCalls \o
    <<SetupCall("DefineObjectMaterials", ""),
      SetupCall("SetupSceneLights", ""),
      SetupCall("LoadMesh", "Plane"),
      SetupCall("LoadMesh", "Box"),
      SetupCall("LoadMesh", "Cylinder")>>

\* the calls of PrepareScene, LoadSceneTextures inlined
PrepareSceneCalls ==
    LoadSceneTexturesCalls \o
    <<SetupCall("DefineObjectMaterials", ""),
      SetupCall("SetupSceneLights", ""),
      SetupCall("LoadMesh", "Plane"),
      SetupCall("LoadMesh", "Box"),
      SetupCall("LoadMesh", "Cylinder"),
      SetupCall("LoadMesh", "Cone")>>

\* the literals of SetupSceneLights, in units of 1/FixOne
SceneLights ==
    <<[position |-> Vec3(-400000, 200000, 0),
       ambientColor |-> Vec3(100000, 100000, 100000),
       diffuseColor |-> Vec3(100000, 100000, 100000),
       specularColor |-> Vec3(100000, 100000, 100000),
       focalStrength |-> 0,
       specularIntensity |-> 100000,
       constant |-> 100000,
       linear |-> 1,
       quadratic |-> 0],
      [position |-> Vec3(5000000, 1500000, 0),
       ambientColor |-> Vec3(50000, 30000, 30000),
       diffuseColor |-> Vec3(30000, 30000, 30000),
       specularColor |-> Vec3(0, 0, 0),
       focalStrength |-> 1600000,
       specularIntensity |-> 3000,
       constant |-> 100000,
       linear |-> 1000,
       quadratic |-> 0],
      [position |-> Vec3(1500000, 800000, 1500000),
       ambientColor |-> Vec3(60000, 20000, 60000),
       diffuseColor |-> Vec3(30000, 10000, 30000),
       specularColor |-> Vec3(0, 0, 10000),
       focalStrength |-> 600000,
       specularIntensity |-> 5000,
       constant |-> 100000,
       linear |-> 1000,
       quadratic |-> 0],
      [position |-> Vec3(-1000000, 800000, 1500000),
       ambientColor |-> Vec3(10000, 10000, 10000),
       diffuseColor |-> Vec3(10000, 10000, 10000),
       specularColor |-> Vec3(0, 0, 0),
       focalStrength |-> 400000,
       specularIntensity |-> 5000,
       constant |-> 100000,
       linear |-> 100,
       quadratic |-> 0]>>

\* SetupSceneLights: 36 light uniforms, then bUseLighting; m_pShaderManager is
\* dereferenced without a null check
SetupSceneLights ==
    /\ lastCall' = Call("SetupSceneLights", "", 0, 0)
    /\ IF NULL # m_pShaderManager
       THEN /\ uniforms' = [uniforms EXCEPT !["lightSources"] = SceneLights,
                                            ![g_UseLightingName] = BoolToInt(TRUE)]
            /\ halted' = halted
       ELSE \/ /\ halted' = TRUE
               /\ uniforms' = uniforms
            \/ /\ halted' = halted
               /\ uniforms' = [uniforms EXCEPT !["lightSources"] = SceneLights,
                                               ![g_UseLightingName] = BoolToInt(TRUE)]

\* m_basicMeshes->Load<shape>Mesh()
LoadMesh(shape) ==
    /\ m_basicMeshes' = [m_basicMeshes EXCEPT ![shape] = @ + 1]
    /\ lastCall' = Call("LoadMesh", shape, 0, 0)

\* m_basicMeshes->Draw<shape>Mesh()
DrawMesh(shape) ==
    /\ lastCall' = Call("DrawMesh", shape, 0, 0)

RenderCall(op, a) == [op |-> op, a |-> a]

\* the statements of RenderScene's body, in units of 1/FixOne
RenderSceneBody ==
    <<RenderCall("SetTextureUVScale", Vec2(1000000, 1000000)),
      RenderCall("SetTransformations", TransformArgs(Vec3(4000000, 100000, 2000000), 0, 0, 0, Vec3(2500000, 0, 0))),
      RenderCall("SetShaderTexture", "woodPlanks"),
      RenderCall("SetShaderMaterial", "wood"),
      RenderCall("DrawMesh", "Plane"),
      RenderCall("SetTextureUVScale", Vec2(1000000, 1000000)),
      RenderCall("SetTransformations", TransformArgs(Vec3(800000, 1000000, 4000000), 0, 9000000, 9000000, Vec3(2500000, 800000, -2000000))),
      RenderCall("SetShaderTexture", "wall"),
      RenderCall("SetShaderMaterial", "rug"),
      RenderCall("DrawMesh", "Plane"),
      RenderCall("SetTextureUVScale", Vec2(100000, 100000)),
      RenderCall("SetTransformations", TransformArgs(Vec3(1000000, 10000, 2000000), 0, 0, 0, Vec3(-400000, 10000, 0))),
      RenderCall("SetShaderTexture", "rug"),
      RenderCall("SetShaderMaterial", "rug"),
      RenderCall("DrawMesh", "Box"),
      RenderCall("SetTextureUVScale", Vec2(100000, 100000)),
      RenderCall("SetTransformations", TransformArgs(Vec3(1050000, 10000, 2050000), 0, 0, 0, Vec3(-400000, 9000, 0))),
      RenderCall("SetShaderTexture", "cloth"),
      RenderCall("SetShaderMaterial", "rug"),
      RenderCall("DrawMesh", "Box"),
      RenderCall("SetTextureUVScale", Vec2(100000, 100000)),
      RenderCall("SetTransformations", TransformArgs(Vec3(1200000, 10000, 2400000), 0, 9000000, 0, Vec3(2000000, 10000, -300000))),
      RenderCall("SetShaderTexture", "rug"),
      RenderCall("SetShaderMaterial", "rug"),
      RenderCall("DrawMesh", "Box"),
      RenderCall("SetTextureUVScale", Vec2(100000, 100000)),
      RenderCall("SetTransformations", TransformArgs(Vec3(1250000, 10000, 2450000), 0, 9000000, 0, Vec3(2000000, 9000, -300000))),
      RenderCall("SetShaderTexture", "cloth"),
      RenderCall("SetShaderMaterial", "rug"),
      RenderCall("DrawMesh", "Box"),
      RenderCall("SetTransformations", TransformArgs(Vec3(75000, 100000, 200000), 0, 0, 0, Vec3(-600000, 200000, 300000))),
      RenderCall("SetShaderColor", Vec4(100000, 0, 100000, 100000)),
      RenderCall("DrawMesh", "Box"),
      RenderCall("SetTransformations", TransformArgs(Vec3(20000, 80000, 20000), 0, 0, 0, Vec3(-580000, 250100, 325000))),
      RenderCall("SetShaderColor", Vec4(100000, 80000, 50000, 50000)),
      RenderCall("DrawMesh", "Cylinder"),
      RenderCall("SetTransformations", TransformArgs(Vec3(21000, 40000, 21000), 0, 0, 0, Vec3(-580000, 270000, 325000))),
      RenderCall("SetShaderTexture", "prescription"),
      RenderCall("DrawMesh", "Cylinder"),
      RenderCall("SetTransformations", TransformArgs(Vec3(26000, 3000, 26000), 0, 0, 0, Vec3(-580000, 320000, 325000))),
      RenderCall("SetShaderTexture", "plastic"),
      RenderCall("SetShaderMaterial", "wood"),
      RenderCall("DrawMesh", "Cylinder"),
      RenderCall("SetTransformations", TransformArgs(Vec3(23000, 15000, 23000), 0, 0, 0, Vec3(-580000, 320000, 325000))),
      RenderCall("SetShaderTexture", "plastic"),
      RenderCall("SetShaderMaterial", "wood"),
      RenderCall("DrawMesh", "Cylinder"),
      RenderCall("SetTransformations", TransformArgs(Vec3(21000, 10000, 21000), 0, 0, 0, Vec3(-580000, 330000, 325000))),
      RenderCall("SetShaderTexture", "plastic"),
      RenderCall("SetShaderMaterial", "wood"),
      RenderCall("DrawMesh", "Cylinder"),
      RenderCall("SetTransformations", TransformArgs(Vec3(20000, 80000, 20000), 0, 0, 0, Vec3(-613000, 250100, 370000))),
      RenderCall("SetShaderColor", Vec4(100000, 80000, 50000, 50000)),
      RenderCall("DrawMesh", "Cylinder"),
      RenderCall("SetTransformations", TransformArgs(Vec3(21000, 40000, 21000), 0, 0, 0, Vec3(-613000, 270000, 370000))),
      RenderCall("SetShaderTexture", "prescription"),
      RenderCall("DrawMesh", "Cylinder"),
      RenderCall("SetTransformations", TransformArgs(Vec3(26000, 3000, 26000), 0, 0, 0, Vec3(-613000, 320000, 370000))),
      RenderCall("SetShaderTexture", "plastic"),
      RenderCall("SetShaderMaterial", "wood"),
      RenderCall("DrawMesh", "Cylinder"),
      RenderCall("SetTransformations", TransformArgs(Vec3(23000, 15000, 23000), 0, 0, 0, Vec3(-613000, 320000, 370000))),
      RenderCall("SetShaderTexture", "plastic"),
      RenderCall("SetShaderMaterial", "wood"),
      RenderCall("DrawMesh", "Cylinder"),
      RenderCall("SetTransformations", TransformArgs(Vec3(21000, 10000, 21000), 0, 0, 0, Vec3(-613000, 330000, 370000))),
      RenderCall("SetShaderTexture", "plastic"),
      RenderCall("SetShaderMaterial", "wood"),
      RenderCall("DrawMesh", "Cylinder"),
      RenderCall("SetTransformations", TransformArgs(Vec3(905250, 10000, 300000), 0, 0, 0, Vec3(-187500, 145000, 250000))),
      RenderCall("SetShaderTexture", "table"),
      RenderCall("SetShaderMaterial", "table"),
      RenderCall("DrawMesh", "Box"),
      RenderCall("SetTransformations", TransformArgs(Vec3(950000, 10000, 350000), 0, 0, 0, Vec3(-192500, 400000, 252500))),
      RenderCall("SetShaderTexture", "table"),
      RenderCall("SetShaderMaterial", "table"),
      RenderCall("DrawMesh", "Box"),
      RenderCall("SetTransformations", TransformArgs(Vec3(900000, 50000, 10000), 0, 0, 0, Vec3(-190000, 375000, 395000))),
      RenderCall("SetShaderTexture", "table"),
      RenderCall("SetShaderMaterial", "table"),
      RenderCall("DrawMesh", "Box"),
      RenderCall("SetTransformations", TransformArgs(Vec3(900000, 50000, 10000), 0, 0, 0, Vec3(-190000, 120000, 395000))),
      RenderCall("SetShaderTexture", "table"),
      RenderCall("SetShaderMaterial", "table"),
      RenderCall("DrawMesh", "Box"),
      RenderCall("SetTransformations", TransformArgs(Vec3(50000, 400000, 10000), 0, 0, 0, Vec3(-625000, 200000, 405000))),
      RenderCall("SetShaderTexture", "table"),
      RenderCall("SetShaderMaterial", "table"),
      RenderCall("DrawMesh", "Box"),
      RenderCall("SetTransformations", TransformArgs(Vec3(50000, 400000, 10000), 0, 0, 0, Vec3(250000, 200000, 405000))),
      RenderCall("SetShaderTexture", "table"),
      RenderCall("SetShaderMaterial", "table"),
      RenderCall("DrawMesh", "Box"),
      RenderCall("SetTransformations", TransformArgs(Vec3(900000, 50000, 10000), 0, 0, 0, Vec3(-190000, 375000, 105000))),
      RenderCall("SetShaderTexture", "table"),
      RenderCall("SetShaderMaterial", "table"),
      RenderCall("DrawMesh", "Box"),
      RenderCall("SetTransformations", TransformArgs(Vec3(900000, 50000, 10000), 0, 0, 0, Vec3(-190000, 120000, 105000))),
      RenderCall("SetShaderTexture", "table"),
      RenderCall("SetShaderMaterial", "table"),
      RenderCall("DrawMesh", "Box"),
      RenderCall("SetTransformations", TransformArgs(Vec3(50000, 400000, 10000), 0, 0, 0, Vec3(-625000, 200000, 95000))),
      RenderCall("SetShaderTexture", "table"),
      RenderCall("SetShaderMaterial", "table"),
      RenderCall("DrawMesh", "Box"),
      RenderCall("SetTransformations", TransformArgs(Vec3(50000, 400000, 10000), 0, 0, 0, Vec3(250000, 200000, 95000))),
      RenderCall("SetShaderTexture", "table"),
      RenderCall("SetShaderMaterial", "table"),
      RenderCall("DrawMesh", "Box"),
      RenderCall("SetTransformations", TransformArgs(Vec3(10000, 50000, 300000), 0, 0, 0, Vec3(-635000, 375000, 250000))),
      RenderCall("SetShaderTexture", "table"),
      RenderCall("SetShaderMaterial", "table"),
      RenderCall("DrawMesh", "Box"),
      RenderCall("SetTransformations", TransformArgs(Vec3(10000, 50000, 300000), 0, 0, 0, Vec3(-635000, 120000, 250000))),
      RenderCall("SetShaderTexture", "table"),
      RenderCall("SetShaderMaterial", "table"),
      RenderCall("DrawMesh", "Box"),
      RenderCall("SetTransformations", TransformArgs(Vec3(10000, 400000, 50000), 0, 0, 0, Vec3(-645000, 200000, 115000))),
      RenderCall("SetShaderTexture", "table"),
      RenderCall("SetShaderMaterial", "table"),
      RenderCall("DrawMesh", "Box"),
      RenderCall("SetTransformations", TransformArgs(Vec3(10000, 400000, 50000), 0, 0, 0, Vec3(-645000, 200000, 385000))),
      RenderCall("SetShaderTexture", "table"),
      RenderCall("SetShaderMaterial", "table"),
      RenderCall("DrawMesh", "Box"),
      RenderCall("SetTransformations", TransformArgs(Vec3(10000, 50000, 300000), 0, 0, 0, Vec3(260000, 375000, 250000))),
      RenderCall("SetShaderTexture", "table"),
      RenderCall("SetShaderMaterial", "table"),
      RenderCall("DrawMesh", "Box"),
      RenderCall("SetTransformations", TransformArgs(Vec3(10000, 50000, 300000), 0, 0, 0, Vec3(260000, 120000, 250000))),
      RenderCall("SetShaderTexture", "table"),
      RenderCall("SetShaderMaterial", "table"),
      RenderCall("DrawMesh", "Box"),
      RenderCall("SetTransformations", TransformArgs(Vec3(10000, 400000, 50000), 0, 0, 0, Vec3(270000, 200000, 115000))),
      RenderCall("SetShaderTexture", "table"),
      RenderCall("SetShaderMaterial", "table"),
      RenderCall("DrawMesh", "Box"),
      RenderCall("SetTransformations", TransformArgs(Vec3(10000, 400000, 50000), 0, 0, 0, Vec3(270000, 200000, 385000))),
      RenderCall("SetShaderTexture", "table"),
      RenderCall("SetShaderMaterial", "table"),
      RenderCall("DrawMesh", "Box"),
      RenderCall("SetTransformations", TransformArgs(Vec3(172000, 1000, 245000), 0, 0, 0, Vec3(-474500, 150000, 275000))),
      RenderCall("SetShaderColor", Vec4(10000, 10000, 10000, 100000)),
      RenderCall("SetShaderMaterial", "rug"),
      RenderCall("DrawMesh", "Box"),
      RenderCall("SetTransformations", TransformArgs(Vec3(170000, 10000, 240000), 0, 0, 0, Vec3(-475000, 156000, 275000))),
      RenderCall("SetShaderColor", Vec4(100000, 100000, 100000, 100000)),
      RenderCall("SetShaderMaterial", "rug"),
      RenderCall("DrawMesh", "Box"),
      RenderCall("SetTransformations", TransformArgs(Vec3(172000, 1000, 245000), 0, 0, 0, Vec3(-474500, 162000, 275000))),
      RenderCall("SetShaderColor", Vec4(10000, 10000, 10000, 100000)),
      RenderCall("SetShaderMaterial", "rug"),
      RenderCall("DrawMesh", "Box"),
      RenderCall("SetTransformations", TransformArgs(Vec3(1000, 12000, 245000), 0, 0, 0, Vec3(-560000, 156000, 275000))),
      RenderCall("SetShaderColor", Vec4(10000, 10000, 10000, 100000)),
      RenderCall("SetShaderMaterial", "rug"),
      RenderCall("DrawMesh", "Box"),
      RenderCall("SetTransformations", TransformArgs(Vec3(120000, 1000, 200000), 0, 0, 0, Vec3(-300000, 150500, 275000))),
      RenderCall("SetShaderColor", Vec4(10000, 10000, 10000, 100000)),
      RenderCall("SetShaderMaterial", "rug"),
      RenderCall("DrawMesh", "Box"),
      RenderCall("SetTransformations", TransformArgs(Vec3(120000, 250, 200000), 0, 0, 0, Vec3(-300000, 151000, 275000))),
      RenderCall("SetShaderTexture", "screen"),
      RenderCall("SetShaderMaterial", "glass"),
      RenderCall("DrawMesh", "Box"),
      RenderCall("SetTransformations", TransformArgs(Vec3(905250, 10000, 300000), 0, 0, 0, Vec3(412500, 145000, -950000))),
      RenderCall("SetShaderTexture", "woodReal"),
      RenderCall("SetShaderMaterial", "table"),
      RenderCall("DrawMesh", "Box"),
      RenderCall("SetTransformations", TransformArgs(Vec3(950000, 10000, 350000), 0, 0, 0, Vec3(407500, 400000, -947500))),
      RenderCall("SetShaderTexture", "woodReal"),
      RenderCall("SetShaderMaterial", "table"),
      RenderCall("DrawMesh", "Box"),
      RenderCall("SetTransformations", TransformArgs(Vec3(900000, 50000, 10000), 0, 0, 0, Vec3(410000, 375000, -805000))),
      RenderCall("SetShaderTexture", "woodReal"),
      RenderCall("SetShaderMaterial", "table"),
      RenderCall("DrawMesh", "Box"),
      RenderCall("SetTransformations", TransformArgs(Vec3(900000, 50000, 10000), 0, 0, 0, Vec3(410000, 120000, -805000))),
      RenderCall("SetShaderTexture", "woodReal"),
      RenderCall("SetShaderMaterial", "table"),
      RenderCall("DrawMesh", "Box"),
      RenderCall("SetTransformations", TransformArgs(Vec3(50000, 400000, 10000), 0, 0, 0, Vec3(-25000, 200000, -795000))),
      RenderCall("SetTextureUVScale", Vec2(10000, 100000)),
      RenderCall("SetShaderTexture", "woodReal"),
      RenderCall("SetShaderMaterial", "table"),
      RenderCall("DrawMesh", "Box"),
      RenderCall("SetTransformations", TransformArgs(Vec3(50000, 400000, 10000), 0, 0, 0, Vec3(850000, 200000, -795000))),
      RenderCall("SetShaderTexture", "woodReal"),
      RenderCall("SetShaderMaterial", "table"),
      RenderCall("DrawMesh", "Box"),
      RenderCall("SetTransformations", TransformArgs(Vec3(900000, 50000, 10000), 0, 0, 0, Vec3(410000, 375000, -1095000))),
      RenderCall("SetTextureUVScale", Vec2(100000, 100000)),
      RenderCall("SetShaderTexture", "woodReal"),
      RenderCall("SetShaderMaterial", "table"),
      RenderCall("DrawMesh", "Box"),
      RenderCall("SetTransformations", TransformArgs(Vec3(900000, 50000, 10000), 0, 0, 0, Vec3(410000, 120000, -1095000))),
      RenderCall("SetShaderTexture", "woodReal"),
      RenderCall("SetShaderMaterial", "table"),
      RenderCall("DrawMesh", "Box"),
      RenderCall("SetTransformations", TransformArgs(Vec3(50000, 400000, 10000), 0, 0, 0, Vec3(-25000, 200000, -1105000))),
      RenderCall("SetTextureUVScale", Vec2(10000, 100000)),
      RenderCall("SetShaderTexture", "woodReal"),
      RenderCall("SetShaderMaterial", "table"),
      RenderCall("DrawMesh", "Box"),
      RenderCall("SetTransformations", TransformArgs(Vec3(50000, 400000, 10000), 0, 0, 0, Vec3(850000, 200000, -1105000))),
      RenderCall("SetShaderTexture", "woodReal"),
      RenderCall("SetShaderMaterial", "table"),
      RenderCall("DrawMesh", "Box"),
      RenderCall("SetTransformations", TransformArgs(Vec3(10000, 50000, 300000), 0, 0, 0, Vec3(-35000, 375000, -950000))),
      RenderCall("SetTextureUVScale", Vec2(100000, 100000)),
      RenderCall("SetShaderTexture", "woodReal"),
      RenderCall("SetShaderMaterial", "table"),
      RenderCall("DrawMesh", "Box"),
      RenderCall("SetTransformations", TransformArgs(Vec3(10000, 50000, 300000), 0, 0, 0, Vec3(-35000, 120000, -950000))),
      RenderCall("SetShaderTexture", "woodReal"),
      RenderCall("SetShaderMaterial", "table"),
      RenderCall("DrawMesh", "Box"),
      RenderCall("SetTransformations", TransformArgs(Vec3(10000, 400000, 50000), 0, 0, 0, Vec3(-45000, 200000, -1085000))),
      RenderCall("SetTextureUVScale", Vec2(10000, 100000)),
      RenderCall("SetShaderTexture", "woodReal"),
      RenderCall("SetShaderMaterial", "table"),
      RenderCall("DrawMesh", "Box"),
      RenderCall("SetTransformations", TransformArgs(Vec3(10000, 400000, 50000), 0, 0, 0, Vec3(-45000, 200000, -815000))),
      RenderCall("SetShaderTexture", "woodReal"),
      RenderCall("SetShaderMaterial", "table"),
      RenderCall("DrawMesh", "Box"),
      RenderCall("SetTransformations", TransformArgs(Vec3(10000, 50000, 300000), 0, 0, 0, Vec3(860000, 375000, -950000))),
      RenderCall("SetTextureUVScale", Vec2(100000, 100000)),
      RenderCall("SetShaderTexture", "woodReal"),
      RenderCall("SetShaderMaterial", "table"),
      RenderCall("DrawMesh", "Box"),
      RenderCall("SetTransformations", TransformArgs(Vec3(10000, 50000, 300000), 0, 0, 0, Vec3(860000, 120000, -950000))),
      RenderCall("SetShaderTexture", "woodReal"),
      RenderCall("SetShaderMaterial", "table"),
      RenderCall("DrawMesh", "Box"),
      RenderCall("SetTransformations", TransformArgs(Vec3(10000, 400000, 50000), 0, 0, 0, Vec3(870000, 200000, -1085000))),
      RenderCall("SetTextureUVScale", Vec2(10000, 100000)),
      RenderCall("SetShaderTexture", "woodReal"),
      RenderCall("SetShaderMaterial", "table"),
      RenderCall("DrawMesh", "Box"),
      RenderCall("SetTransformations", TransformArgs(Vec3(10000, 400000, 50000), 0, 0, 0, Vec3(870000, 200000, -815000))),
      RenderCall("SetShaderTexture", "woodReal"),
      RenderCall("SetShaderMaterial", "table"),
      RenderCall("DrawMesh", "Box"),
      RenderCall("SetTransformations", TransformArgs(Vec3(2000, 140000, 2000), 9000000, 0, 0, Vec3(-560000, 164500, 230000))),
      RenderCall("SetShaderTexture", "pencil"),
      RenderCall("SetShaderMaterial", "table"),
      RenderCall("DrawMesh", "Cylinder"),
      RenderCall("SetTransformations", TransformArgs(Vec3(2000, 8000, 2000), 9000000, 0, 0, Vec3(-560000, 164500, 370000))),
      RenderCall("SetShaderTexture", "table"),
      RenderCall("SetTextureUVScale", Vec2(10000, 10000)),
      RenderCall("SetShaderMaterial", "table"),
      RenderCall("DrawMesh", "Cone"),
      RenderCall("SetTransformations", TransformArgs(Vec3(2000, 4000, 2000), 9000000, 0, 0, Vec3(-560000, 164500, 226000))),
      RenderCall("SetShaderTexture", "screen"),
      RenderCall("SetShaderMaterial", "table"),
      RenderCall("DrawMesh", "Cylinder")>>

\* RenderScene with no material set for the floor, its first object
RenderCallsFloorWithoutMaterial ==
    SubSeq(RenderSceneBody, 1, 3) \o SubSeq(RenderSceneBody, 5, Len(RenderSceneBody))

\* RenderScene with no transform set for the floor, its first object
RenderCallsFloorWithoutTransform ==
    SubSeq(RenderSceneBody, 1, 1) \o SubSeq(RenderSceneBody, 3, Len(RenderSceneBody))

\* RenderScene with the floor's material set ahead of its texture
RenderCallsMaterialBeforeTexture ==
    <<RenderSceneBody[1], RenderSceneBody[2], RenderSceneBody[4], RenderSceneBody[3]>> \o
    SubSeq(RenderSceneBody, 5, Len(RenderSceneBody))

\* the calls RenderScene issues: its body runs top to bottom, without a branch
RenderCalls == RenderSceneBody

AtSetup(op) ==
    /\ ~halted
    /\ pc[1] = "PrepareScene"
    /\ pc[2] < Len(PrepareSceneCalls)
    /\ PrepareSceneCalls[pc[2] + 1].op = op

SetupAdvance(name) ==
    /\ pc' = IF pc[2] + 1 = Len(PrepareSceneCalls) THEN <<"ready", 0>>
             ELSE <<"PrepareScene", pc[2] + 1>>
    /\ setupTrace' = Append(setupTrace, name)

\* the main program calls PrepareScene once after construction
CallPrepareScene ==
    /\ ~halted
    /\ pc = <<"constructed", 0>>
    /\ pc' = <<"PrepareScene", 0>>
    /\ lastCall' = Call("PrepareScene", "", 0, 0)
    /\ UNCHANGED <<firstFrameDraws, m_pShaderManager, m_loadedTextures, m_textureIDs, m_objectMaterials,
                   m_basicMeshes, glTextures, glActiveUnit, glUnits, heapImages, uniforms,
                   material, materialIn, halted, frame, setupTrace, sinceDraw>>

SceneCreateGLTexture ==
    /\ AtSetup("CreateGLTexture")
    /\ LET a == PrepareSceneCalls[pc[2] + 1].a
       IN  \E colorChannels \in StbiLoadResults, textureID \in LowestOf(UnusedNames(1), 1) :
              /\ colorChannels \notin {3, 4} =>
                     Len(setupTrace) - m_loadedTextures < MaxSceneFailures
              /\ CreateGLTexture(a[1], a[2], colorChannels, textureID)
    /\ SetupAdvance("CreateGLTexture")
    /\ UNCHANGED <<firstFrameDraws, m_pShaderManager, m_objectMaterials, m_basicMeshes, glActiveUnit,
                   uniforms, material, materialIn, frame, sinceDraw>>

SceneBindGLTextures ==
    /\ AtSetup("BindGLTextures")
    /\ BindGLTextures
    /\ SetupAdvance("BindGLTextures")
    /\ UNCHANGED <<firstFrameDraws, m_pShaderManager, m_loadedTextures, m_textureIDs, m_objectMaterials,
                   m_basicMeshes, glTextures, heapImages, uniforms, material, materialIn,
                   halted, frame, sinceDraw>>

SceneDefineObjectMaterials ==
    /\ AtSetup("DefineObjectMaterials")
    /\ DefineObjectMaterials
    /\ SetupAdvance("DefineObjectMaterials")
    /\ UNCHANGED <<firstFrameDraws, m_pShaderManager, m_loadedTextures, m_textureIDs, m_basicMeshes,
                   glTextures, glActiveUnit, glUnits, heapImages, uniforms, material,
                   materialIn, halted, frame, sinceDraw>>

SceneSetupSceneLights ==
    /\ AtSetup("SetupSceneLights")
    /\ SetupSceneLights
    /\ SetupAdvance("SetupSceneLights")
    /\ UNCHANGED <<firstFrameDraws, m_pShaderManager, m_loadedTextures, m_textureIDs, m_objectMaterials,
                   m_basicMeshes, glTextures, glActiveUnit, glUnits, heapImages, material,
                   materialIn, frame, sinceDraw>>

SceneLoadMesh ==
    /\ AtSetup("LoadMesh")
    /\ LoadMesh(PrepareSceneCalls[pc[2] + 1].a)
    /\ SetupAdvance("Load" \o PrepareSceneCalls[pc[2] + 1].a \o "Mesh")
    /\ UNCHANGED <<firstFrameDraws, m_pShaderManager, m_loadedTextures, m_textureIDs, m_objectMaterials,
                   glTextures, glActiveUnit, glUnits, heapImages, uniforms, material,
                   materialIn, halted, frame, sinceDraw>>

\* the main loop calls RenderScene once per frame
CallRenderScene ==
    /\ ~halted
    /\ pc = <<"ready", 0>>
    /\ frame < MaxFrames
    /\ pc' = <<"RenderScene", 0>>
    /\ sinceDraw' = <<>>
    /\ lastCall' = Call("RenderScene", "", 0, 0)
    /\ UNCHANGED <<firstFrameDraws, m_pShaderManager, m_loadedTextures, m_textureIDs, m_objectMaterials,
                   m_basicMeshes, glTextures, glActiveUnit, glUnits, heapImages, uniforms,
                   material, materialIn, halted, frame, setupTrace>>

AtRender(op) ==
    /\ ~halted
    /\ pc[1] = "RenderScene"
    /\ pc[2] < Len(RenderCalls)
    /\ RenderCalls[pc[2] + 1].op = op

RenderAdvance ==
    /\ pc' = IF pc[2] + 1 = Len(RenderCalls) THEN <<"ready", 0>>
             ELSE <<"RenderScene", pc[2] + 1>>
    /\ frame' = IF pc[2] + 1 = Len(RenderCalls) THEN frame + 1 ELSE frame
    /\ sinceDraw' = IF RenderCalls[pc[2] + 1].op = "DrawMesh" THEN <<>>
                    ELSE Append(sinceDraw, RenderCalls[pc[2] + 1].op)

RenderSetTransformations ==
    /\ AtRender("SetTransformations")
    /\ LET a == RenderCalls[pc[2] + 1].a
       IN  SetTransformations(a.scale, a.rx, a.ry, a.rz, a.pos)
    /\ RenderAdvance
    /\ UNCHANGED <<firstFrameDraws, m_pShaderManager, m_loadedTextures, m_textureIDs, m_objectMaterials,
                   m_basicMeshes, glTextures, glActiveUnit, glUnits, heapImages,
                   material, materialIn, halted, setupTrace>>

RenderSetShaderColor ==
    /\ AtRender("SetShaderColor")
    /\ LET a == RenderCalls[pc[2] + 1].a
       IN  SetShaderColor(a[1], a[2], a[3], a[4])
    /\ RenderAdvance
    /\ UNCHANGED <<firstFrameDraws, m_pShaderManager, m_loadedTextures, m_textureIDs, m_objectMaterials,
                   m_basicMeshes, glTextures, glActiveUnit, glUnits, heapImages,
                   material, materialIn, halted, setupTrace>>

RenderSetShaderTexture ==
    /\ AtRender("SetShaderTexture")
    /\ SetShaderTexture(RenderCalls[pc[2] + 1].a)
    /\ RenderAdvance
    /\ UNCHANGED <<firstFrameDraws, m_pShaderManager, m_loadedTextures, m_textureIDs, m_objectMaterials,
                   m_basicMeshes, glTextures, glActiveUnit, glUnits, heapImages,
                   material, materialIn, halted, setupTrace>>

RenderSetTextureUVScale ==
    /\ AtRender("SetTextureUVScale")
    /\ LET a == RenderCalls[pc[2] + 1].a
       IN  SetTextureUVScale(a[1], a[2])
    /\ RenderAdvance
    /\ UNCHANGED <<firstFrameDraws, m_pShaderManager, m_loadedTextures, m_textureIDs, m_objectMaterials,
                   m_basicMeshes, glTextures, glActiveUnit, glUnits, heapImages,
                   material, materialIn, halted, setupTrace>>

RenderSetShaderMaterial ==
    /\ AtRender("SetShaderMaterial")
    /\ SetShaderMaterial(RenderCalls[pc[2] + 1].a)
    /\ RenderAdvance
    /\ UNCHANGED <<firstFrameDraws, m_pShaderManager, m_loadedTextures, m_textureIDs, m_objectMaterials,
                   m_basicMeshes, glTextures, glActiveUnit, glUnits, heapImages,
                   material, materialIn, setupTrace>>

\* what the shader program holds when a mesh is drawn
ShadingState(shape) ==
    [shape |-> shape,
     model |-> uniforms[g_ModelName],
     useTexture |-> uniforms[g_UseTextureName],
     appearance |-> IF uniforms[g_UseTextureName] = BoolToInt(TRUE)
                    THEN uniforms[g_TextureValueName]
                    ELSE uniforms[g_ColorValueName],
     UVscale |-> uniforms["UVscale"],
     material |-> [n \in MaterialUniformNames |-> uniforms[n]]]

RenderDrawMesh ==
    /\ AtRender("DrawMesh")
    /\ DrawMesh(RenderCalls[pc[2] + 1].a)
    /\ RenderAdvance
    /\ firstFrameDraws' = IF frame = 0
                          THEN Append(firstFrameDraws, ShadingState(RenderCalls[pc[2] + 1].a))
                          ELSE firstFrameDraws
    /\ UNCHANGED <<m_pShaderManager, m_loadedTextures, m_textureIDs, m_objectMaterials,
                   m_basicMeshes, glTextures, glActiveUnit, glUnits, heapImages, uniforms,
                   material, materialIn, halted, setupTrace>>

InitScene == Constructed(ShaderPtr)

NextScene ==
    \/ CallPrepareScene
    \/ SceneCreateGLTexture
    \/ SceneBindGLTextures
    \/ SceneDefineObjectMaterials
    \/ SceneSetupSceneLights
    \/ SceneLoadMesh
    \/ CallRenderScene
    \/ RenderSetTransformations
    \/ RenderSetShaderColor
    \/ RenderSetShaderTexture
    \/ RenderSetTextureUVScale
    \/ RenderSetShaderMaterial
    \/ RenderDrawMesh

SpecScene == InitScene /\ [][NextScene]_vars

\* PrepareScene alone, every texture file of the scene free to fail
PrepareCreateGLTexture ==
    /\ AtSetup("CreateGLTexture")
    /\ LET a == PrepareSceneCalls[pc[2] + 1].a
       IN  \E colorChannels \in StbiLoadResults, textureID \in LowestOf(UnusedNames(1), 1) :
              CreateGLTexture(a[1], a[2], colorChannels, textureID)
    /\ SetupAdvance("CreateGLTexture")
    /\ UNCHANGED <<firstFrameDraws, m_pShaderManager, m_objectMaterials, m_basicMeshes, glActiveUnit,
                   uniforms, material, materialIn, frame, sinceDraw>>

NextPrepare ==
    \/ CallPrepareScene
    \/ PrepareCreateGLTexture
    \/ SceneBindGLTextures
    \/ SceneDefineObjectMaterials
    \/ SceneSetupSceneLights
    \/ SceneLoadMesh

SpecPrepare == InitScene /\ [][NextPrepare]_vars

\* one tag loaded over and over, up to the first load past the last texture slot
FillCreateGLTexture ==
    /\ ~halted
    /\ m_loadedTextures <= TextureSlots
    /\ \E colorChannels \in StbiLoadResults, textureID \in LowestOf(UnusedNames(1), 1) :
          /\ colorChannels \in {1, 2} => heapImages < MaxLeaked
          /\ CreateGLTexture(FileOf("woodReal"), "woodReal", colorChannels, textureID)
    /\ UNCHANGED <<firstFrameDraws, m_pShaderManager, m_objectMaterials, m_basicMeshes, glActiveUnit,
                   uniforms, material, materialIn, pc, frame, setupTrace, sinceDraw>>

NextFill ==
    \/ FillCreateGLTexture
    \/ CallFindTextureSlot

SpecFill == Init /\ [][NextFill]_vars

\* the five shader methods called in any order on a SceneManager constructed
\* with a null shader manager, materials being defined in between
InitNullShader == Constructed(NULL)

NextNullShader ==
    \/ CallPushMaterial
    \/ CallSetTransformations
    \/ CallSetShaderColor
    \/ CallSetShaderTexture
    \/ CallSetTextureUVScale
    \/ CallSetShaderMaterial

SpecNullShader == InitNullShader /\ [][NextNullShader]_vars

(***************************************************************************)
(* Properties of the texture registry                                      *)
(***************************************************************************)
HasTag(textureIDs, loaded, tag) == \E i \in 1..loaded : textureIDs[i].tag = tag
CreateSucceeded(call) == call.op = "CreateGLTexture" /\ call.ret = 1

\* C1, as stated: a successful CreateGLTexture(file, tag) immediately followed
\* by FindTextureID(tag) yields a non-negative handle different from the handle
\* of every texture registered before the call.
C1_AsStated ==
    [][CreateSucceeded(lastCall') =>
          LET h == FindTextureIDIn(m_textureIDs', m_loadedTextures', lastCall'.tag)
          IN  /\ h >= 0
              /\ \A i \in 1..m_loadedTextures : h # m_textureIDs[i].ID]_vars

\* C1, amended: when the tag was not registered before the call, a successful
\* CreateGLTexture(file, tag) immediately followed by FindTextureID(tag) yields
\* the handle generated by this call, which is non-negative and different from
\* every handle registered or generated before the call.
C1_FreshTagHandle ==
    [][(CreateSucceeded(lastCall') /\ ~HasTag(m_textureIDs, m_loadedTextures, lastCall'.tag)) =>
          LET h == FindTextureIDIn(m_textureIDs', m_loadedTextures', lastCall'.tag)
          IN  /\ h >= 0
              /\ h = m_textureIDs'[m_loadedTextures'].ID
              /\ h \notin glTextures
              /\ \A i \in 1..m_loadedTextures : h # m_textureIDs[i].ID]_vars

\* a new tag has just been loaded into a registry that already held an entry
C1_Witness ==
    /\ CreateSucceeded(lastCall)
    /\ m_loadedTextures >= 2
    /\ FindTextureSlot(lastCall.tag) = m_loadedTextures - 1

\* C2: CreateGLTexture on an image that decodes with a channel count other than
\* 3 or 4 returns false and leaves the count and every registry entry as they
\* were, so the tag is findable afterwards exactly if it was before.
C2_BadChannelsLeaveRegistry ==
    [][(lastCall'.op = "CreateGLTexture" /\ lastCall'.arg \notin {0, 3, 4}) =>
          /\ lastCall'.ret = 0
          /\ m_loadedTextures' = m_loadedTextures
          /\ m_textureIDs' = m_textureIDs
          /\ FindTextureSlotIn(m_textureIDs', m_loadedTextures', lastCall'.tag)
                 = FindTextureSlot(lastCall'.tag)
          /\ FindTextureIDIn(m_textureIDs', m_loadedTextures', lastCall'.tag)
                 = FindTextureID(lastCall'.tag)]_vars

\* a two-channel image was rejected while the registry held an entry and the
\* rejected tag was not registered
C2_Witness ==
    /\ lastCall.op = "CreateGLTexture"
    /\ lastCall.arg = 2
    /\ lastCall.ret = 0
    /\ m_loadedTextures >= 1
    /\ FindTextureSlot(lastCall.tag) = -1

\* C3: FindTextureID and FindTextureSlot return -1 when no registered entry has
\* the tag (the registry being empty or not); otherwise FindTextureSlot returns
\* an index in 0..count-1 of an entry with the tag and FindTextureID the handle
\* stored at that index.
C3_LookupResult ==
    /\ \A tag \in ApiTags :
          LET slot == FindTextureSlot(tag)
              id == FindTextureID(tag)
          IN  IF HasTag(m_textureIDs, m_loadedTextures, tag)
              THEN /\ slot \in 0..(m_loadedTextures - 1)
                   /\ m_textureIDs[slot + 1].tag = tag
                   /\ id = m_textureIDs[slot + 1].ID
              ELSE slot = -1 /\ id = -1
    /\ lastCall.op = "FindTextureSlot" => lastCall.ret = FindTextureSlot(lastCall.tag)
    /\ lastCall.op = "FindTextureID" => lastCall.ret = FindTextureID(lastCall.tag)

\* a lookup missed in a non-empty registry
C3_Witness ==
    /\ lastCall.op = "FindTextureID"
    /\ lastCall.ret = -1
    /\ m_loadedTextures >= 1

\* C4: every successful load adds one entry, also when the tag is registered
\* already; of two entries with the same tag the lookups resolve to the one
\* with the lower index and never to the later one.
C4_FirstEntryWins ==
    /\ [](\A i, j \in 1..m_loadedTextures :
             (i < j /\ m_textureIDs[i].tag = m_textureIDs[j].tag) =>
                 /\ FindTextureSlot(m_textureIDs[j].tag) <= i - 1
                 /\ FindTextureSlot(m_textureIDs[j].tag) # j - 1
                 /\ FindTextureID(m_textureIDs[j].tag) # m_textureIDs[j].ID
                 /\ (lastCall.op = "FindTextureSlot" /\ lastCall.tag = m_textureIDs[j].tag)
                        => lastCall.ret <= i - 1
                 /\ (lastCall.op = "FindTextureID" /\ lastCall.tag = m_textureIDs[j].tag)
                        => lastCall.ret # m_textureIDs[j].ID)
    /\ [][CreateSucceeded(lastCall') =>
             /\ m_loadedTextures' = m_loadedTextures + 1
             /\ Len(m_textureIDs') = Len(m_textureIDs) + 1
             /\ m_textureIDs'[m_loadedTextures'].tag = lastCall'.tag]_vars

\* the same tag is registered twice and has just been looked up
C4_Witness ==
    /\ lastCall.op = "FindTextureSlot"
    /\ lastCall.ret = 0
    /\ \E j \in 2..m_loadedTextures : m_textureIDs[j].tag = lastCall.tag

\* C9: BindGLTextures binds, for every registry index i below the count, unit
\* i to the handle stored at index i, so the slot of every registered tag names
\* the unit holding its handle; units at or above the count keep their binding.
C9_BindAll ==
    [][lastCall'.op = "BindGLTextures" =>
          /\ \A i \in 0..(m_loadedTextures - 1) : glUnits'[i] = m_textureIDs[i + 1].ID
          /\ \A tag \in ApiTags :
                 HasTag(m_textureIDs, m_loadedTextures, tag) =>
                     glUnits'[FindTextureSlot(tag)] = FindTextureID(tag)
          /\ \A u \in m_loadedTextures..(TextureSlots - 1) : glUnits'[u] = glUnits[u]
          /\ UNCHANGED <<m_textureIDs, m_loadedTextures>>]_vars

\* three textures are bound, two of them under the same tag
C9_Witness ==
    /\ lastCall.op = "BindGLTextures"
    /\ m_loadedTextures = MaxLoaded
    /\ \E i, j \in 1..m_loadedTextures : i < j /\ m_textureIDs[i].tag = m_textureIDs[j].tag
    /\ \A i \in 0..(m_loadedTextures - 1) : glUnits[i] # 0

(***************************************************************************)
(* Properties of the appearance state                                      *)
(***************************************************************************)
\* C8: with a shader manager, the use-texture flag is set by SetShaderTexture,
\* cleared by SetShaderColor and left alone by every other call, so it is true
\* exactly if the most recent of the two calls was SetShaderTexture.
C8_LastWriteWins ==
    [][m_pShaderManager # NULL =>
          /\ lastCall'.op = "SetShaderTexture" => uniforms'[g_UseTextureName] = 1
          /\ lastCall'.op = "SetShaderColor" => uniforms'[g_UseTextureName] = 0
          /\ lastCall'.op \notin {"SetShaderTexture", "SetShaderColor"} =>
                 uniforms'[g_UseTextureName] = uniforms[g_UseTextureName]]_vars

\* SetShaderTexture has just followed a SetShaderColor
C8_Witness ==
    /\ m_pShaderManager # NULL
    /\ lastCall.op = "SetShaderTexture"
    /\ uniforms[g_ColorValueName] \in ColorInputs
    /\ uniforms[g_UseTextureName] = 1


(***************************************************************************)
(* Properties of the material registry                                     *)
(***************************************************************************)
SameLighting(a, b) ==
    /\ a.ambientColor = b.ambientColor
    /\ a.ambientStrength = b.ambientStrength
    /\ a.diffuseColor = b.diffuseColor
    /\ a.specularColor = b.specularColor
    /\ a.shininess = b.shininess

MaterialIndices(tag) == {i \in 1..Len(m_objectMaterials) : m_objectMaterials[i].tag = tag}
FirstIndex(S) == CHOOSE i \in S : \A j \in S : i <= j
LastIndex(S) == CHOOSE i \in S : \A j \in S : j <= i

\* C5, as stated: when two materials with the same tag have been defined,
\* FindMaterial(tag, out) fills out with the values of the most recently
\* defined of them.
C5_AsStated ==
    (lastCall.op = "FindMaterial" /\ Cardinality(MaterialIndices(lastCall.tag)) >= 2) =>
        SameLighting(material, m_objectMaterials[LastIndex(MaterialIndices(lastCall.tag))])

\* C5, amended: when two materials with the same tag have been defined,
\* FindMaterial(tag, out) fills out with the values of the first defined of
\* them (the entry with the lowest index).
C5_FirstDefinedWins ==
    (lastCall.op = "FindMaterial" /\ Cardinality(MaterialIndices(lastCall.tag)) >= 2) =>
        SameLighting(material, m_objectMaterials[FirstIndex(MaterialIndices(lastCall.tag))])

\* a tag defined twice with different values has just been looked up
C5_Witness ==
    /\ lastCall.op = "FindMaterial"
    /\ Cardinality(MaterialIndices(lastCall.tag)) >= 2
    /\ ~SameLighting(m_objectMaterials[FirstIndex(MaterialIndices(lastCall.tag))],
                     m_objectMaterials[LastIndex(MaterialIndices(lastCall.tag))])
    /\ ~SameLighting(material, materialIn)

\* C6: FindMaterial returns false exactly when the registry is empty; with a
\* non-empty registry and no entry of the tag it returns true and leaves out
\* as it was; with a matching entry it returns true and copies that entry's
\* five lighting fields into out.
C6_FindMaterialResult ==
    lastCall.op = "FindMaterial" =>
        /\ lastCall.ret = 0 <=> Len(m_objectMaterials) = 0
        /\ MaterialIndices(lastCall.tag) = {} => material = materialIn
        /\ MaterialIndices(lastCall.tag) # {} =>
               /\ lastCall.ret = 1
               /\ \E i \in MaterialIndices(lastCall.tag) :
                      SameLighting(material, m_objectMaterials[i])
               /\ material.tag = materialIn.tag

\* a lookup missed in a non-empty registry, with an output that held values
C6_Witness ==
    /\ lastCall.op = "FindMaterial"
    /\ lastCall.ret = 1
    /\ Len(m_objectMaterials) > 0
    /\ MaterialIndices(lastCall.tag) = {}
    /\ material = glassMaterial

(***************************************************************************)
(* Properties of the transform composer                                    *)
(***************************************************************************)
\* a point turned by whole quarter turns about one axis
RECURSIVE TurnX(_, _)
TurnX(p, n) == IF n = 0 THEN p ELSE TurnX(Vec3(p[1], -p[3], p[2]), n - 1)
RECURSIVE TurnY(_, _)
TurnY(p, n) == IF n = 0 THEN p ELSE TurnY(Vec3(p[3], p[2], -p[1]), n - 1)
RECURSIVE TurnZ(_, _)
TurnZ(p, n) == IF n = 0 THEN p ELSE TurnZ(Vec3(-p[2], p[1], p[3]), n - 1)

PointSum(p, q) == Vec3(p[1] + q[1], p[2] + q[2], p[3] + q[3])
AxisPoints(s) == {Vec3(s[1], 0, 0), Vec3(0, s[2], 0), Vec3(0, 0, s[3])}
UnitPoint(p) == Vec3(IF p[1] = 0 THEN 0 ELSE FixOne, IF p[2] = 0 THEN 0 ELSE FixOne,
                     IF p[3] = 0 THEN 0 ELSE FixOne)

\* C7: the 'model' uniform set by SetTransformations is
\* Translate(position) x RotateX x RotateY x RotateZ x Scale(scale): it maps the
\* local origin to position and each unit axis point to position plus the
\* scaled axis turned by RotateZ, RotateY, RotateX; with scale (2,1,1),
\* rotation (0,90,0), position (1,0,0) the point (1,0,0) goes to (1,0,-2).
C7_ModelMatrix ==
    (m_pShaderManager # NULL /\ lastCall.op = "SetTransformations") =>
        LET M == uniforms[g_ModelName]
            a == lastCall.arg
        IN  /\ TransformPoint(M, Vec3(0, 0, 0)) = a.pos
            /\ \A q \in AxisPoints(a.scale) :
                   TransformPoint(M, UnitPoint(q)) =
                       PointSum(a.pos, TurnX(TurnY(TurnZ(q, QuarterTurns(a.rz)),
                                                   QuarterTurns(a.ry)), QuarterTurns(a.rx)))
            /\ (a = TransformArgs(Vec3(2 * FixOne, FixOne, FixOne), 0, 90 * FixOne, 0,
                                  Vec3(FixOne, 0, 0))) =>
                   /\ TransformPoint(M, Vec3(0, 0, 0)) = Vec3(FixOne, 0, 0)
                   /\ TransformPoint(M, Vec3(FixOne, 0, 0)) = Vec3(FixOne, 0, -2 * FixOne)

\* the transform of the example has been uploaded
C7_Witness ==
    /\ m_pShaderManager # NULL
    /\ lastCall.op = "SetTransformations"
    /\ lastCall.arg = TransformArgs(Vec3(2 * FixOne, FixOne, FixOne), 0, 90 * FixOne, 0,
                                    Vec3(FixOne, 0, 0))
    /\ TransformPoint(uniforms[g_ModelName], Vec3(FixOne, 0, 0)) = Vec3(FixOne, 0, -2 * FixOne)


(***************************************************************************)
(* Properties of PrepareScene                                              *)
(***************************************************************************)
IsPrefix(a, b) == Len(a) <= Len(b) /\ a = SubSeq(b, 1, Len(a))
Occurrences(trace, name) == Cardinality({i \in 1..Len(trace) : trace[i] = name})
SceneTextureCount == Occurrences([i \in 1..Len(PrepareSceneCalls) |->
                                     PrepareSceneCalls[i].op], "CreateGLTexture")

SetupOrder ==
    [i \in 1..SceneTextureCount |-> "CreateGLTexture"] \o
    <<"BindGLTextures", "DefineObjectMaterials", "SetupSceneLights",
      "LoadPlaneMesh", "LoadBoxMesh", "LoadCylinderMesh", "LoadConeMesh">>

\* C10: the calls PrepareScene issues are, in this order, every texture load,
\* one BindGLTextures, the material definition, the light configuration and
\* the loads of the plane, box, cylinder and cone meshes; no texture is loaded
\* once BindGLTextures has run, and when RenderScene issues a draw call the
\* whole sequence has run, BindGLTextures exactly once.
C10_SetupOrder ==
    /\ IsPrefix(setupTrace, SetupOrder)
    /\ lastCall.op = "CreateGLTexture" => Occurrences(setupTrace, "BindGLTextures") = 0
    /\ pc[1] \in {"ready", "RenderScene"} => setupTrace = SetupOrder
    /\ lastCall.op = "DrawMesh" =>
           /\ setupTrace = SetupOrder
           /\ Occurrences(setupTrace, "BindGLTextures") = 1

\* a draw call of the second frame, after a setup in which a texture failed
C10_Witness ==
    /\ lastCall.op = "DrawMesh"
    /\ frame = 1
    /\ m_loadedTextures < SceneTextureCount
    /\ Occurrences(setupTrace, "BindGLTextures") = 1


(***************************************************************************)
(* Properties of RenderScene                                               *)
(***************************************************************************)
RenderStep == pc[1] = "RenderScene" \/ pc'[1] = "RenderScene"

\* C11: RenderScene, called any number of times, leaves the texture registry
\* (entries and loaded count), the material registry and the light
\* configuration with bUseLighting unchanged: each of its steps only sets
\* per-draw uniforms or issues a draw call.
C11_RenderReadsOnly ==
    [][RenderStep =>
          /\ UNCHANGED <<m_textureIDs, m_loadedTextures, m_objectMaterials>>
          /\ uniforms'["lightSources"] = uniforms["lightSources"]
          /\ uniforms'[g_UseLightingName] = uniforms[g_UseLightingName]
          /\ lastCall'.op \in {"RenderScene", "SetTransformations", "SetShaderColor",
                               "SetShaderTexture", "SetTextureUVScale",
                               "SetShaderMaterial", "DrawMesh"}]_vars

\* the second frame has drawn with the registries and lights of the setup
C11_Witness ==
    /\ frame = 1
    /\ lastCall.op = "DrawMesh"
    /\ m_loadedTextures > 0
    /\ Len(m_objectMaterials) = 4
    /\ uniforms["lightSources"] = SceneLights
    /\ uniforms[g_UseLightingName] = BoolToInt(TRUE)

AppearanceCalls == {"SetShaderColor", "SetShaderTexture"}
OptionalCall(name) == {<<>>, <<name>>}

\* the orders C12 states: transform, appearance, UV scale if present, material
\* if present
StatedOrders ==
    {<<"SetTransformations", a>> \o u \o m :
        a \in AppearanceCalls, u \in OptionalCall("SetTextureUVScale"),
        m \in OptionalCall("SetShaderMaterial")}

\* the same with the UV scale, if present, anywhere ahead of the material
FoundOrders ==
    StatedOrders \cup
    {u \o <<"SetTransformations", a>> \o m :
        a \in AppearanceCalls, u \in OptionalCall("SetTextureUVScale"),
        m \in OptionalCall("SetShaderMaterial")} \cup
    {<<"SetTransformations">> \o u \o <<a>> \o m :
        a \in AppearanceCalls, u \in OptionalCall("SetTextureUVScale"),
        m \in OptionalCall("SetShaderMaterial")}

\* C12, as stated: for every object drawn by RenderScene the calls between the
\* previous draw and its draw are SetTransformations, the appearance call,
\* SetTextureUVScale if present, SetShaderMaterial if present, in this order.
C12_AsStated ==
    [][lastCall'.op = "DrawMesh" => sinceDraw \in StatedOrders]_vars

\* C12, amended: for every object drawn by RenderScene the calls between the
\* previous draw and its draw are one SetTransformations, later one appearance
\* call, then SetShaderMaterial if present; SetTextureUVScale, if present, is
\* called once, ahead of the transform, between the transform and the
\* appearance call or after the appearance call, and ahead of the material.
C12_UVScaleAnywhereAheadOfMaterial ==
    [][lastCall'.op = "DrawMesh" => sinceDraw \in FoundOrders]_vars

\* an object whose UV scale was set ahead of its transform is about to be drawn
C12_Witness ==
    /\ pc[1] = "RenderScene"
    /\ lastCall.op = "SetShaderMaterial"
    /\ RenderCalls[pc[2] + 1].op = "DrawMesh"
    /\ sinceDraw = <<"SetTextureUVScale", "SetTransformations", "SetShaderTexture",
                     "SetShaderMaterial">>

(***************************************************************************)
(* Properties of the scene's texture loads                                 *)
(***************************************************************************)
SceneTags == {PrepareSceneCalls[i].a[2] :
                 i \in {j \in 1..Len(PrepareSceneCalls) :
                           PrepareSceneCalls[j].op = "CreateGLTexture"}}
LoadPosition(tag) == CHOOSE i \in 1..Len(PrepareSceneCalls) :
                        /\ PrepareSceneCalls[i].op = "CreateGLTexture"
                        /\ PrepareSceneCalls[i].a[2] = tag
SlotOf(textureIDs, loaded, tag) ==
    IF HasTag(textureIDs, loaded, tag)
    THEN (CHOOSE i \in 1..loaded : /\ textureIDs[i].tag = tag
                                   /\ \A j \in 1..(i - 1) : textureIDs[j].tag # tag) - 1
    ELSE -1

\* the registered tags are scene tags in load order, each found at its own index
LoadedInLoadOrder ==
    /\ m_loadedTextures = Len(m_textureIDs)
    /\ \A i \in 1..m_loadedTextures :
           /\ m_textureIDs[i].tag \in SceneTags
           /\ FindTextureSlot(m_textureIDs[i].tag) = i - 1
           /\ \A j \in (i + 1)..m_loadedTextures :
                  LoadPosition(m_textureIDs[i].tag) < LoadPosition(m_textureIDs[j].tag)

\* one step of PrepareScene: a load goes on to the next call whatever its
\* result, a failed load leaves its tag unregistered, a successful one takes
\* the next free slot, and the slot of every other tag stays what it was
LoadStep ==
    LET loading == pc[1] = "PrepareScene" /\ lastCall'.op = "CreateGLTexture"
    IN  /\ loading =>
               /\ ~halted'
               /\ pc' = <<"PrepareScene", pc[2] + 1>>
               /\ lastCall'.tag = PrepareSceneCalls[pc[2] + 1].a[2]
               /\ lastCall'.ret = 0 =>
                      /\ FindTextureSlotIn(m_textureIDs', m_loadedTextures', lastCall'.tag) = -1
                      /\ m_loadedTextures' = m_loadedTextures
               /\ lastCall'.ret = 1 =>
                      /\ FindTextureSlotIn(m_textureIDs', m_loadedTextures', lastCall'.tag) =
                             m_loadedTextures
                      /\ m_loadedTextures' = m_loadedTextures + 1
        /\ \A t \in SceneTags :
               (loading /\ t = lastCall'.tag) \/
               FindTextureSlotIn(m_textureIDs', m_loadedTextures', t) =
                   FindTextureSlotIn(m_textureIDs, m_loadedTextures, t)

\* C13: texture load failures are non-fatal: whichever of the ten loads of
\* LoadSceneTextures fail, the remaining loads are attempted, BindGLTextures
\* and the rest of PrepareScene run, each failed tag is unregistered
\* (FindTextureSlot returns -1 for it) and the successful tags occupy the
\* consecutive slots 0..n-1 in load order.
C13_LoadFailuresNonFatal ==
    /\ [](LoadedInLoadOrder /\ IsPrefix(setupTrace, SetupOrder) /\ ~halted)
    /\ [](pc[1] = "ready" =>
              /\ setupTrace = SetupOrder
              /\ \A t \in SceneTags :
                     FindTextureSlot(t) = SlotOf(m_textureIDs, m_loadedTextures, t)
              /\ \A i \in 0..(m_loadedTextures - 1) : glUnits[i] = m_textureIDs[i + 1].ID)
    /\ [][LoadStep]_vars

\* PrepareScene has finished after the first, the fifth and the last load failed
C13_Witness ==
    /\ pc[1] = "ready"
    /\ setupTrace = SetupOrder
    /\ m_loadedTextures = SceneTextureCount - 3
    /\ FindTextureSlot("woodReal") = -1
    /\ FindTextureSlot("rug") = -1
    /\ FindTextureSlot("pencil") = -1
    /\ FindTextureSlot("woodPlanks") = 0
    /\ FindTextureSlot("screen") = 6

\* C14, as stated: after any sequence of CreateGLTexture calls the number of
\* registered textures never exceeds 16, the number of texture slots, and no
\* call writes a registry entry at an index of 16 or more.
C14_AsStated ==
    /\ m_loadedTextures <= TextureSlots
    /\ Len(m_textureIDs) <= TextureSlots
    /\ [][CreateSucceeded(lastCall') => m_loadedTextures < TextureSlots]_vars

(***************************************************************************)
(* Properties of the shader calls                                          *)
(***************************************************************************)
\* C15, as stated: SetShaderMaterial called with a tag that matches no defined
\* material, the material registry empty or not, uploads no material uniform:
\* the five material.* uniforms keep the values last bound before the call.
C15_AsStated ==
    [][(lastCall'.op = "SetShaderMaterial" /\ MaterialIndices(lastCall'.tag) = {}) =>
          \A n \in MaterialUniformNames : uniforms'[n] = uniforms[n]]_vars

\* C16: SetShaderTexture(tag) with a non-null shader manager always sets
\* bUseTexture to true and objectTexture to FindTextureSlot(tag), the registry
\* index of the first entry with that tag, or -1 when the tag is not
\* registered; the call is not skipped.
C16_TextureSlotUploaded ==
    (m_pShaderManager # NULL /\ lastCall.op = "SetShaderTexture") =>
        /\ uniforms[g_UseTextureName] = BoolToInt(TRUE)
        /\ uniforms[g_TextureValueName] = FindTextureSlot(lastCall.tag)
        /\ uniforms[g_TextureValueName] = SlotOf(m_textureIDs, m_loadedTextures, lastCall.tag)
        /\ ~HasTag(m_textureIDs, m_loadedTextures, lastCall.tag) =>
               uniforms[g_TextureValueName] = -1

\* an unregistered tag was set while another texture is registered
C16_Witness ==
    /\ m_pShaderManager # NULL
    /\ lastCall.op = "SetShaderTexture"
    /\ m_loadedTextures > 0
    /\ ~HasTag(m_textureIDs, m_loadedTextures, lastCall.tag)
    /\ uniforms[g_UseTextureName] = BoolToInt(TRUE)
    /\ uniforms[g_TextureValueName] = -1

(***************************************************************************)
(* Properties of the order of the rotations                                *)
(***************************************************************************)
\* a point off every axis and its image under the scale alone
ProbePoint == Vec3(FixOne, 2 * FixOne, 3 * FixOne)
ScaledProbe(s) == Vec3(s[1], 2 * s[2], 3 * s[3])
RotatedXYZ(p, a) ==
    TurnZ(TurnY(TurnX(p, QuarterTurns(a.rx)), QuarterTurns(a.ry)), QuarterTurns(a.rz))
RotatedZYX(p, a) ==
    TurnX(TurnY(TurnZ(p, QuarterTurns(a.rz)), QuarterTurns(a.ry)), QuarterTurns(a.rx))

\* C17, as stated: in the transform built by SetTransformations the rotations
\* act on an object about X first, then Y, then Z, after the scale and before
\* the translation: for multiples of 90 degrees the image of a point is the
\* translation of the scaled point rotated about X, then Y, then Z.
C17_AsStated ==
    (m_pShaderManager # NULL /\ lastCall.op = "SetTransformations") =>
        TransformPoint(uniforms[g_ModelName], ProbePoint) =
            PointSum(lastCall.arg.pos, RotatedXYZ(ScaledProbe(lastCall.arg.scale), lastCall.arg))

\* C17, amended: the rotations act on an object about Z first, then Y, then X,
\* after the scale and before the translation: for multiples of 90 degrees the
\* image of a point is the translation of the scaled point rotated about Z,
\* then Y, then X.
C17_ZThenYThenX ==
    (m_pShaderManager # NULL /\ lastCall.op = "SetTransformations") =>
        TransformPoint(uniforms[g_ModelName], ProbePoint) =
            PointSum(lastCall.arg.pos, RotatedZYX(ScaledProbe(lastCall.arg.scale), lastCall.arg))

\* a transform with quarter turns about X and Y, where the two orders differ
C17_Witness ==
    /\ m_pShaderManager # NULL
    /\ lastCall.op = "SetTransformations"
    /\ lastCall.arg.rx = 90 * FixOne
    /\ lastCall.arg.ry = 90 * FixOne
    /\ RotatedXYZ(ScaledProbe(lastCall.arg.scale), lastCall.arg) #
           RotatedZYX(ScaledProbe(lastCall.arg.scale), lastCall.arg)
    /\ TransformPoint(uniforms[g_ModelName], ProbePoint) =
           PointSum(lastCall.arg.pos, RotatedZYX(ScaledProbe(lastCall.arg.scale), lastCall.arg))

(***************************************************************************)
(* Properties of the meshes                                                *)
(***************************************************************************)
\* C18: each of the four primitive meshes (plane, box, cylinder, cone) is
\* loaded exactly once by PrepareScene, every draw call of a RenderScene that
\* follows it is for a shape whose mesh has been loaded, and RenderScene
\* itself never loads a mesh.
C18_MeshesLoadedOnce ==
    /\ [](\A s \in Shapes : m_basicMeshes[s] \in {0, 1})
    /\ [](pc[1] \in {"ready", "RenderScene"} => \A s \in Shapes : m_basicMeshes[s] = 1)
    /\ [](lastCall.op = "DrawMesh" =>
              /\ lastCall.tag \in Shapes
              /\ m_basicMeshes[lastCall.tag] = 1)
    /\ [][RenderStep => /\ m_basicMeshes' = m_basicMeshes
                        /\ lastCall'.op # "LoadMesh"]_vars

\* the cone, the shape loaded last, has been drawn
C18_Witness ==
    /\ pc[1] = "RenderScene"
    /\ lastCall = Call("DrawMesh", "Cone", 0, 0)
    /\ m_basicMeshes["Cone"] = 1

(***************************************************************************)
(* Properties of DestroyGLTextures                                         *)
(***************************************************************************)
\* C19, as stated: DestroyGLTextures frees every registered texture: after it
\* returns none of the handles stored in the registry entries 0..count-1
\* before the call is still allocated, and it allocates no new handle.
C19_AsStated ==
    [][lastCall'.op = "DestroyGLTextures" =>
          /\ \A i \in 1..m_loadedTextures : m_textureIDs[i].ID \notin glTextures'
          /\ glTextures' \subseteq glTextures]_vars

(***************************************************************************)
(* Properties of the tags RenderScene uses                                 *)
(***************************************************************************)
AllLoadsSucceeded == m_loadedTextures = SceneTextureCount
RenderTags(op) == {RenderCalls[i].a : i \in {j \in 1..Len(RenderCalls) : RenderCalls[j].op = op}}
DefinedMaterials == {woodMaterial, tableMaterial, rugMaterial, glassMaterial}

\* C20: when all ten loads of LoadSceneTextures succeed, every texture tag
\* RenderScene passes to SetShaderTexture resolves to a registered slot in
\* 0..9, so that objectTexture is never -1 during a frame, and every material
\* tag it passes to SetShaderMaterial matches a material defined by
\* DefineObjectMaterials.
C20_SceneTagsResolve ==
    (AllLoadsSucceeded /\ pc[1] \in {"ready", "RenderScene"}) =>
        /\ \A t \in RenderTags("SetShaderTexture") :
               /\ FindTextureSlot(t) \in 0..(SceneTextureCount - 1)
               /\ m_textureIDs[FindTextureSlot(t) + 1].tag = t
        /\ uniforms[g_TextureValueName] \in 0..(SceneTextureCount - 1)
        /\ lastCall.op = "SetShaderTexture" =>
               uniforms[g_TextureValueName] =
                   SlotOf(m_textureIDs, m_loadedTextures, lastCall.tag)
        /\ \A t \in RenderTags("SetShaderMaterial") :
               \E i \in MaterialIndices(t) : m_objectMaterials[i] \in DefinedMaterials
        /\ lastCall.op = "SetShaderMaterial" =>
               \E d \in DefinedMaterials :
                   /\ d.tag = lastCall.tag
                   /\ uniforms["material.shininess"] = d.shininess
                   /\ uniforms["material.diffuseColor"] = d.diffuseColor

\* with ten textures loaded the texture loaded last has been set for an object
C20_Witness ==
    /\ AllLoadsSucceeded
    /\ lastCall.op = "SetShaderTexture"
    /\ lastCall.tag = "pencil"
    /\ uniforms[g_TextureValueName] = SceneTextureCount - 1

(***************************************************************************)
(* Properties of the frames                                                *)
(***************************************************************************)
DrawPositions == {i \in 1..Len(RenderCalls) : RenderCalls[i].op = "DrawMesh"}
\* draw calls the running frame has issued; a finished frame has issued all
DrawsIssued == IF pc[1] = "RenderScene"
               THEN Cardinality({i \in DrawPositions : i <= pc[2]})
               ELSE Cardinality(DrawPositions)

\* C21: rendering is frame-deterministic: every frame after the one
\* PrepareScene issues the same sequence of draw calls, and at each draw the
\* model matrix, the use-texture flag, the sampler slot when textured or the
\* color when flat-colored, the UV scale and the material are what they were
\* at the same draw of the first frame.
C21_FrameDeterministic ==
    /\ frame >= 1 => Len(firstFrameDraws) = Cardinality(DrawPositions)
    /\ (lastCall.op = "DrawMesh" /\ frame >= 1) =>
           ShadingState(lastCall.tag) = firstFrameDraws[DrawsIssued]

\* the second frame has drawn an object that sets a color and no material
C21_Witness ==
    /\ frame = 1
    /\ pc[1] = "RenderScene"
    /\ lastCall.op = "DrawMesh"
    /\ RenderCalls[pc[2] - 1].op = "SetShaderColor"
    /\ uniforms[g_UseTextureName] = BoolToInt(FALSE)
    /\ ShadingState(lastCall.tag) = firstFrameDraws[DrawsIssued]
    /\ ShadingState(lastCall.tag).material # [n \in MaterialUniformNames |-> InitialUniforms[n]]

\* C22: no draw call of RenderScene inherits its transform or its appearance
\* mode from an earlier object: between two consecutive draw calls, and ahead
\* of the first, there is exactly one SetTransformations call and exactly one
\* appearance call (SetShaderColor or SetShaderTexture).
C22_OneTransformOneAppearance ==
    [][lastCall'.op = "DrawMesh" =>
          /\ Occurrences(sinceDraw, "SetTransformations") = 1
          /\ Occurrences(sinceDraw, "SetShaderColor") +
                 Occurrences(sinceDraw, "SetShaderTexture") = 1]_vars

\* a flat-colored object with its one transform and one color call is drawn
C22_Witness ==
    /\ pc[1] = "RenderScene"
    /\ pc[2] < Len(RenderCalls)
    /\ RenderCalls[pc[2] + 1].op = "DrawMesh"
    /\ sinceDraw = <<"SetTransformations", "SetShaderColor">>

(***************************************************************************)
(* Properties of the failure paths                                         *)
(***************************************************************************)
\* C23, as stated: every call of CreateGLTexture that returns false leaves no
\* resource behind: each texture handle it generated is registered or
\* released, and the decoded image buffer is freed, on the path of an
\* unsupported channel count as on the path of a decode failure.
C23_AsStated ==
    [][(lastCall'.op = "CreateGLTexture" /\ lastCall'.ret = BoolToInt(FALSE) /\ ~halted') =>
          /\ heapImages' = heapImages
          /\ \A id \in glTextures' \ glTextures :
                 \E i \in 1..m_loadedTextures' : m_textureIDs'[i].ID = id]_vars

ShaderCalls == {"SetTransformations", "SetShaderColor", "SetShaderTexture",
                "SetTextureUVScale", "SetShaderMaterial"}

\* C24, as stated: with a null shader manager each of SetTransformations,
\* SetShaderColor, SetShaderTexture, SetTextureUVScale and SetShaderMaterial
\* issues no uniform call and does not dereference the null pointer, whatever
\* the registries hold, a non-empty material registry included.
C24_AsStated ==
    [][(m_pShaderManager = NULL /\ lastCall'.op \in ShaderCalls) =>
          /\ uniforms' = uniforms
          /\ halted' = halted]_vars

====
